---- MODULE Spec2Model ----
(***************************************************************************)
(* Verification model of the trade selection engine                        *)
(* (src/trade_matcher.py, src/trade_analyzer.py, src/config.py).           *)
(*                                                                         *)
(* Numbers.  Python floats with one decimal are modelled as integers in    *)
(* tenths: a trade_score, a gain or a player value of 4.5 is 45, a         *)
(* value_delta_pct of 12.0 (percent) is 120.                               *)
(***************************************************************************)
EXTENDS Integers, Sequences, FiniteSets, TLC

VARIABLES
    \* select_optimal_trades: its argument, the position in it, the graph built
    \* last, the selection so far, the relaxation strategies tried, the return value
    valid_trades, pc, G, selected_trades, attempts, result,
    \* a call of find_perfect_matching(G, target_teams): the arguments, the
    \* position and the outcome
    fpm_G, fpm_target, fpm_pc, fpm_out,
    \* a call of score_trade or of check_fairness_constraint: the function with
    \* its arguments, the position and the return value
    fn_call, fn_pc, fn_ret,
    \* a call of filter_valid_trades(candidate_trades, team_rosters,
    \* player_values): the candidates, the rosters, how the installed pandas
    \* treats isin() over a list holding dicts, the position and the outcome
    candidate_trades, team_rosters, isin_dicts, flt_pc, flt_out,
    \* what a direct call of check_roster_viability or of
    \* calculate_starter_impact on candidate_trades[0] returned
    gate_ret,
    \* a call of calculate_starter_values(sv_roster, player_values): the roster,
    \* how the installed pandas treats isin() over dicts, the position and the
    \* return value
    sv_roster, sv_isin, sv_pc, sv_ret,
    \* a call of identify_needs_surplus(team_deltas): the deltas, the position and
    \* the return value
    ns_deltas, ns_pc, ns_ret,
    \* a call of generate_candidate_trades(team_needs_surplus, player_values,
    \* enriched_data): the needs and surplus, the enriched rosters (the empty
    \* function for None), the position and the outcome
    gen_ns, gen_enriched, gen_pc, gen_out,
    \* a call of validate_matching_constraints(selected_trades): the selection,
    \* the position and the return value
    val_trades, val_pc, val_ret,
    \* what filter_valid_trades returned when called on the list it had returned
    flt_again,
    \* a call of fetch_fantasycalc_values, fetch_sleeper_rosters or
    \* fetch_sleeper_users: which one, whether the installed requests raises a
    \* RequestException or a plain ValueError from response.json(), the
    \* position, the loop variable, the outcome of each requests.get so far and
    \* the outcome of the call
    ft_fn, ft_json_error, ft_pc, ft_attempt, ft_log, ft_ret,
    \* a call of compute_positional_deltas(all_team_starters): the starter values
    \* of the teams, the position, and the league medians it computed with the
    \* deltas it returned
    pd_starters, pd_pc, pd_ret

selVars == <<valid_trades, pc, G, selected_trades, attempts, result>>

fpmVars == <<fpm_G, fpm_target, fpm_pc, fpm_out>>

fnVars == <<fn_call, fn_pc, fn_ret>>

fltVars == <<candidate_trades, team_rosters, isin_dicts, flt_pc, flt_out, gate_ret>>

svVars == <<sv_roster, sv_isin, sv_pc, sv_ret>>

nsVars == <<ns_deltas, ns_pc, ns_ret>>

genVars == <<gen_ns, gen_enriched, gen_pc, gen_out>>

valVars == <<val_trades, val_pc, val_ret>>

againVars == <<flt_again>>

fetchVars == <<ft_fn, ft_json_error, ft_pc, ft_attempt, ft_log, ft_ret>>

deltaVars == <<pd_starters, pd_pc, pd_ret>>

vars == <<selVars, fpmVars, fnVars, fltVars, svVars, nsVars, genVars, valVars, againVars, fetchVars, deltaVars>>

\* What the actions of one function leave alone.
notSel == <<fpmVars, fnVars, fltVars, svVars, nsVars, genVars, valVars, againVars, fetchVars, deltaVars>>

notFpm == <<selVars, fnVars, fltVars, svVars, nsVars, genVars, valVars, againVars, fetchVars, deltaVars>>

notFn == <<selVars, fpmVars, fltVars, svVars, nsVars, genVars, valVars, againVars, fetchVars, deltaVars>>

notFlt == <<selVars, fpmVars, fnVars, svVars, nsVars, genVars, valVars, againVars, fetchVars, deltaVars>>

notSv == <<selVars, fpmVars, fnVars, fltVars, nsVars, genVars, valVars, againVars, fetchVars, deltaVars>>

notNs == <<selVars, fpmVars, fnVars, fltVars, svVars, genVars, valVars, againVars, fetchVars, deltaVars>>

notGen == <<selVars, fpmVars, fnVars, fltVars, svVars, nsVars, valVars, againVars, fetchVars, deltaVars>>

notVal == <<selVars, fpmVars, fnVars, fltVars, svVars, nsVars, genVars, againVars, fetchVars, deltaVars>>

notAgain == <<selVars, fpmVars, fnVars, fltVars, svVars, nsVars, genVars, valVars, fetchVars, deltaVars>>

notFetch == <<selVars, fpmVars, fnVars, fltVars, svVars, nsVars, genVars, valVars, againVars, deltaVars>>

notDelta == <<selVars, fpmVars, fnVars, fltVars, svVars, nsVars, genVars, valVars, againVars, fetchVars>>

-----------------------------------------------------------------------------
(* Program constants (src/config.py).                                      *)

\* TOTAL_TEAMS
TOTAL_TEAMS == 12

\* MAX_TRADES_PER_WEEK
MAX_TRADES_PER_WEEK == 6

\* FAIRNESS_THRESHOLD = 0.12, in hundredths.
FAIRNESS_THRESHOLD == 12

\* MIN_STARTER_GAIN = 3.0, in tenths.
MIN_STARTER_GAIN == 30

-----------------------------------------------------------------------------
(* Bounds of the model.                                                    *)

\* Number of drawn trades in an input list, on top of the backbone.
MaxFree == 2

-----------------------------------------------------------------------------
(* Generic helpers.                                                        *)

Range(s) == {s[i] : i \in DOMAIN s}

RECURSIVE SumOver(_, _)
\* Sum of f[x] for x in S.
SumOver(S, f) ==
    IF S = {} THEN 0
    ELSE LET x == CHOOSE y \in S : TRUE
         IN  f[x] + SumOver(S \ {x}, f)

SetMax(S) == CHOOSE x \in S : \A y \in S : y <= x

\* Python's None, and a returned list.
None == [kind |-> "none", trades |-> <<>>]

List(s) == [kind |-> "list", trades |-> s]

\* An exception leaving a function body.
Raise == [kind |-> "raise", trades |-> <<>>]

\* Python truthiness of an Optional[List]: neither None nor empty.
Truthy(r) == r.kind = "list" /\ r.trades # <<>>

RECURSIVE SetToSeq(_)
\* The elements of a finite set, listed in some order.
SetToSeq(S) ==
    IF S = {} THEN <<>>
    ELSE LET x == CHOOSE y \in S : TRUE
         IN  <<x>> \o SetToSeq(S \ {x})

-----------------------------------------------------------------------------
(* The trade graph (networkx.Graph): a set of nodes and a set of edges, at *)
(* most one per unordered pair of nodes, each with its attributes.         *)

EmptyGraph == [nodes |-> {}, edges |-> {}]

\* nx.Graph.add_edge(u, v, **attrs): an existing edge u-v has its attributes
\* overwritten, so the pair's earlier edge is replaced.
add_edge(g, u, v, weight, trade_id, trade_data) ==
    [nodes |-> g.nodes \cup {u, v},
     edges |-> {e \in g.edges : e.pair # {u, v}}
               \cup {[pair |-> {u, v}, weight |-> weight, trade_id |-> trade_id,
                      has_data |-> TRUE, trade_data |-> trade_data]}]

RECURSIVE AddTradeEdges(_, _, _)
\* The loop of build_trade_graph over enumerate(valid_trades), from index i
\* (1-based here; trade_id is the 0-based Python index).
AddTradeEdges(g, trades, i) ==
    IF i > Len(trades) THEN g
    ELSE AddTradeEdges(
             add_edge(g, trades[i].team_a, trades[i].team_b,
                      trades[i].trade_score, i - 1, trades[i]),
             trades, i + 1)

\* build_trade_graph keeping a pair's first trade: the list taken backwards.
MutBuildFirstWins(trades) ==
    LET rev == [i \in 1..Len(trades) |-> trades[Len(trades) + 1 - i]]
    IN  AddTradeEdges(
            [nodes |-> UNION {{t.team_a, t.team_b} : t \in Range(trades)},
             edges |-> {}], rev, 1)

build_trade_graph(trades) ==
    AddTradeEdges(
        [nodes |-> UNION {{t.team_a, t.team_b} : t \in Range(trades)},
         edges |-> {}], trades, 1)

-----------------------------------------------------------------------------
(* networkx.algorithms.matching.max_weight_matching, by its contract: a    *)
(* matching of maximum total weight; with maxcardinality=True, of maximum  *)
(* total weight among the matchings of maximum cardinality.  Which of      *)
(* several optimal matchings is returned is not specified: every one is a  *)
(* possible outcome.                                                       *)

IsMatching(M) == \A e \in M : \A f \in M : e # f => e.pair \cap f.pair = {}

Matchings(g) == {M \in SUBSET g.edges : IsMatching(M)}

Weight(M) == SumOver(M, [e \in M |-> e.weight])

max_weight_matching(g, maxcardinality) ==
    LET Ms   == Matchings(g)
        card == SetMax({Cardinality(M) : M \in Ms})
        cand == IF maxcardinality THEN {M \in Ms : Cardinality(M) = card} ELSE Ms
        best == SetMax({Weight(M) : M \in cand})
    IN  {M \in cand : Weight(M) = best}

-----------------------------------------------------------------------------
(* find_perfect_matching (src/trade_matcher.py:46-89).                     *)

\* The trades of a matching, "for team_a, team_b in matching": the pairs of the
\* returned set are visited in the set's iteration order, which no consumer
\* reads; they are listed in one fixed order.
ExtractTrades(M) == SetToSeq({e.trade_data : e \in M})

\* The body of find_perfect_matching without the parity check of lines 64-66.
MutBodyNoParity(g, target_teams) ==
    IF Cardinality(g.nodes) # target_teams THEN {None}
    ELSE {IF Cardinality(M) # target_teams \div 2 THEN None
          ELSE IF \E e \in M : ~e.has_data THEN Raise
          ELSE List(ExtractTrades(M)) : M \in max_weight_matching(g, TRUE)}

\* The body of find_perfect_matching with maxcardinality=False.
MutBodyMaxWeightOnly(g, target_teams) ==
    IF Cardinality(g.nodes) # target_teams THEN {None}
    ELSE IF Cardinality(g.nodes) % 2 # 0 THEN {None}
    ELSE {IF Cardinality(M) # target_teams \div 2 THEN None
          ELSE IF \E e \in M : ~e.has_data THEN Raise
          ELSE List(ExtractTrades(M)) : M \in max_weight_matching(g, FALSE)}

\* The body of the try block (lines 58-85).  edge_data['trade_data'] raises
\* KeyError on an edge that carries no trade_data attribute.
find_perfect_matching_body(g, target_teams) ==
    IF Cardinality(g.nodes) # target_teams THEN {None}
    ELSE IF Cardinality(g.nodes) % 2 # 0 THEN {None}
    ELSE {IF Cardinality(M) # target_teams \div 2 THEN None
          ELSE IF \E e \in M : ~e.has_data THEN Raise
          ELSE List(ExtractTrades(M)) : M \in max_weight_matching(g, TRUE)}

\* find_perfect_matching without its try/except.
MutNoExcept(g, target_teams) == find_perfect_matching_body(g, target_teams)

\* try: ... except Exception: return None (lines 57, 87-89).  The set of the
\* possible return values.
find_perfect_matching(g, target_teams) ==
    {IF r.kind = "raise" THEN None ELSE r :
        r \in find_perfect_matching_body(g, target_teams)}

-----------------------------------------------------------------------------
(* The relaxation filters (src/trade_matcher.py:158-215).                  *)

\* _widen_fairness_threshold comparing the percentage with the fraction
\* new_threshold (0.15, 0.20) instead of new_threshold * 100.
MutWidenByFraction(trades, pct) ==
    LET keep(t) == t.value_delta_pct * 10 <= pct
    IN  SelectSeq(trades, keep)

\* _widen_fairness_threshold(trades, new_threshold); pct is new_threshold*100
\* (0.15 * 100 = 15.0 and 0.20 * 100 = 20.0 exactly), value_delta_pct in tenths.
widen_fairness_threshold(trades, pct) ==
    LET keep(t) == t.value_delta_pct <= pct * 10
    IN  SelectSeq(trades, keep)

\* _lower_starter_gain_threshold(trades, new_threshold), new_threshold in tenths.
lower_starter_gain_threshold(trades, new_threshold) ==
    LET keep(t) == t.team_a_gain >= new_threshold /\ t.team_b_gain >= new_threshold
    IN  SelectSeq(trades, keep)

\* _allow_uneven_trades: the placeholder returns its input.
allow_uneven_trades(trades) == trades

\* _find_best_partial_matching with maxcardinality=True.
MutPartialMaxCard(trades) ==
    IF trades = <<>> THEN {None}
    ELSE {IF M = {} THEN None ELSE List(ExtractTrades(M)) :
             M \in max_weight_matching(build_trade_graph(trades), TRUE)}

\* _find_best_partial_matching: the set of the possible return values.
find_best_partial_matching(trades) ==
    IF trades = <<>> THEN {None}
    ELSE {IF M = {} THEN None ELSE List(ExtractTrades(M)) :
             M \in max_weight_matching(build_trade_graph(trades), FALSE)}

-----------------------------------------------------------------------------
(* validate_matching_constraints (src/trade_matcher.py:218-256).           *)

RECURSIVE NoTeamTwice(_, _, _)
\* The loop of lines 232-242 from index i with the teams seen so far: FALSE at
\* the first trade one of whose teams was seen before.
NoTeamTwice(sel, i, teams_involved) ==
    IF i > Len(sel) THEN TRUE
    ELSE IF sel[i].team_a \in teams_involved \/ sel[i].team_b \in teams_involved
         THEN FALSE
         ELSE NoTeamTwice(sel, i + 1,
                          teams_involved \cup {sel[i].team_a, sel[i].team_b})

\* validate_matching_constraints with the two warnings of lines 245-254 as
\* failures.
MutValidateWarningsFail(sel) ==
    /\ sel # <<>>
    /\ NoTeamTwice(sel, 1, {})
    /\ Len(sel) = MAX_TRADES_PER_WEEK
    /\ Cardinality(UNION {{sel[i].team_a, sel[i].team_b} : i \in DOMAIN sel})
          = TOTAL_TEAMS

\* validate_matching_constraints without the loop over the teams.
MutValidateNonEmptyOnly(sel) == sel # <<>>

\* A trade count other than MAX_TRADES_PER_WEEK and a coverage other than
\* TOTAL_TEAMS only print a warning (lines 245-254).
validate_matching_constraints(sel) ==
    IF sel = <<>> THEN FALSE ELSE NoTeamTwice(sel, 1, {})

\* Step 3 of select_optimal_trades (lines 286-296) on a selection.
SelectReturn(sel) ==
    IF Truthy(sel)
    THEN IF validate_matching_constraints(sel.trades) THEN sel.trades ELSE <<>>
    ELSE <<>>

-----------------------------------------------------------------------------
(* Inputs of select_optimal_trades: lists of validated trades.  A list is  *)
(* a backbone of n team-disjoint trades (teams 1-2, 3-4, ..., 2n-1 - 2n)   *)
(* followed by up to MaxFree trades drawn from a pool that reaches three   *)
(* further teams and the two teams of the last backbone trade.             *)

\* Numbers of backbone trades.
BackboneSizes == {0, 4, 5}

\* trade_score values (tenths) of the drawn trades; a backbone trade scores 100.
Scores == {0, 10}

\* value_delta_pct (tenths of a percent) and gains (tenths) of the drawn trades:
\* at the 12% and 3.0 thresholds of filter_valid_trades, at the 15% and 20%
\* boundaries of strategies 1 and 2, at the 1.0 boundary of strategy 3, and
\* below it.
Profiles ==
    { [value_delta_pct |-> 120, team_a_gain |-> 30, team_b_gain |-> 30],
      [value_delta_pct |-> 150, team_a_gain |-> 40, team_b_gain |-> 40],
      [value_delta_pct |-> 200, team_a_gain |-> 40, team_b_gain |-> 40],
      [value_delta_pct |-> 250, team_a_gain |-> 10, team_b_gain |-> 10],
      [value_delta_pct |-> 250, team_a_gain |-> 5,  team_b_gain |-> 40] }

\* Team pairs of the drawn trades after a backbone of n trades.
FreePairs(n) ==
    {<<2 * n + 1, 2 * n + 2>>, <<2 * n + 2, 2 * n + 3>>}
    \cup (IF n > 0 THEN {<<2 * n - 1, 2 * n + 1>>, <<2 * n, 2 * n + 2>>} ELSE {})

MkTrade(a, b, score, p) ==
    [team_a |-> a, team_b |-> b, trade_score |-> score,
     value_delta_pct |-> p.value_delta_pct,
     team_a_gain |-> p.team_a_gain, team_b_gain |-> p.team_b_gain]

Backbone(n) ==
    [i \in 1..n |->
        MkTrade(2 * i - 1, 2 * i, 100,
                [value_delta_pct |-> 100, team_a_gain |-> 40, team_b_gain |-> 40])]

\* A drawn trade scores 1.0, or 0.0 with the first two of the profiles.
ScoredProfiles ==
    {sp \in Scores \X Profiles : sp[1] > 0 \/ sp[2].value_delta_pct <= 150}

FreeTrades(n) ==
    {MkTrade(pr[1], pr[2], sp[1], sp[2]) : pr \in FreePairs(n), sp \in ScoredProfiles}

\* trades is an input list: a backbone followed by up to max_free free trades.
IsInputList(trades, max_free) ==
    \E n \in BackboneSizes : \E k \in 0..max_free :
        \E f \in [1..k -> FreeTrades(n)] : trades = Backbone(n) \o f

-----------------------------------------------------------------------------
(* select_optimal_trades and relax_constraints_and_retry, one action per   *)
(* step.  pc is the position in the two functions; attempts lists the      *)
(* relaxation strategies tried so far; G is the graph built last.          *)

SelIdle ==
    /\ valid_trades = <<>>
    /\ pc = "idle"
    /\ G = EmptyGraph
    /\ selected_trades = None
    /\ attempts = <<>>
    /\ result = <<>>

FpmIdle ==
    /\ fpm_G = EmptyGraph
    /\ fpm_target = 0
    /\ fpm_pc = "idle"
    /\ fpm_out = None

NoTrade == [type |-> "none", team_a_sends |-> <<>>, team_b_sends |-> <<>>]

NoCall == [fn |-> "none", trade |-> NoTrade,
           team_a_gains |-> 0, team_b_gains |-> 0, value_delta_pct |-> 0]

NoRet == [kind |-> "none", is_fair |-> FALSE, value |-> 0]

FnIdle ==
    /\ fn_call = NoCall
    /\ fn_pc = "idle"
    /\ fn_ret = NoRet

NoGate == [fn |-> "none", kind |-> "none", team_a_gain |-> 0, team_b_gain |-> 0]

FltIdle ==
    /\ candidate_trades = <<>>
    /\ team_rosters = <<>>
    /\ isin_dicts = "nomatch"
    /\ flt_pc = "idle"
    /\ flt_out = None
    /\ gate_ret = NoGate

SvIdle ==
    /\ sv_roster = [players |-> <<>>]
    /\ sv_isin = "nomatch"
    /\ sv_pc = "idle"
    /\ sv_ret = [kind |-> "none"]

NsIdle ==
    /\ ns_deltas = <<>>
    /\ ns_pc = "idle"
    /\ ns_ret = <<>>

GenIdle ==
    /\ gen_ns = <<>>
    /\ gen_enriched = <<>>
    /\ gen_pc = "idle"
    /\ gen_out = None

ValIdle ==
    /\ val_trades = <<>>
    /\ val_pc = "idle"
    /\ val_ret = FALSE

AgainIdle == flt_again = None

FetchIdle ==
    /\ ft_fn = "none"
    /\ ft_json_error = "ValueError"
    /\ ft_pc = "idle"
    /\ ft_attempt = 0
    /\ ft_log = <<>>
    /\ ft_ret = [kind |-> "none"]

DeltaIdle ==
    /\ pd_starters = <<>>
    /\ pd_pc = "idle"
    /\ pd_ret = [league_medians |-> <<>>, team_deltas |-> <<>>]

Init ==
    /\ IsInputList(valid_trades, MaxFree)
    /\ pc = "start"
    /\ G = EmptyGraph
    /\ selected_trades = None
    /\ attempts = <<>>
    /\ result = <<>>
    /\ FpmIdle
    /\ FnIdle
    /\ FltIdle
    /\ SvIdle
    /\ NsIdle
    /\ GenIdle
    /\ ValIdle
    /\ AgainIdle
    /\ FetchIdle
    /\ DeltaIdle

\* select_optimal_trades, lines 272-284: the empty input, else the first attempt.
SelectStart ==
    /\ pc = "start"
    /\ IF valid_trades = <<>>
       THEN /\ pc' = "done"
            /\ UNCHANGED <<G, selected_trades>>
       ELSE /\ G' = build_trade_graph(valid_trades)
            /\ \E r \in find_perfect_matching(build_trade_graph(valid_trades), TOTAL_TEAMS) :
                  /\ selected_trades' = r
                  /\ pc' = IF r = None THEN "relax1" ELSE "validate"
    /\ UNCHANGED <<valid_trades, attempts, result, notSel>>

\* RetryWith without the "if result: return result": a found matching is
\* kept but the next strategy is tried all the same.
MutRetryNoStop(k, relaxed_trades, next) ==
    /\ attempts' = Append(attempts, k)
    /\ IF relaxed_trades # <<>>
       THEN /\ G' = build_trade_graph(relaxed_trades)
            /\ \E r \in find_perfect_matching(build_trade_graph(relaxed_trades), TOTAL_TEAMS) :
                  selected_trades' = IF Truthy(r) THEN r ELSE selected_trades
       ELSE UNCHANGED <<G, selected_trades>>
    /\ pc' = next
    /\ UNCHANGED <<valid_trades, result, notSel>>

\* One of strategies 1-4: "if relaxed_trades:" build the graph and retry the
\* perfect matching; "if result:" return it, else fall through to the next.
RetryWith(k, relaxed_trades, next) ==
    /\ attempts' = Append(attempts, k)
    /\ IF relaxed_trades # <<>>
       THEN /\ G' = build_trade_graph(relaxed_trades)
            /\ \E r \in find_perfect_matching(build_trade_graph(relaxed_trades), TOTAL_TEAMS) :
                  IF Truthy(r)
                  THEN selected_trades' = r /\ pc' = "validate"
                  ELSE UNCHANGED selected_trades /\ pc' = next
       ELSE /\ pc' = next
            /\ UNCHANGED <<G, selected_trades>>
    /\ UNCHANGED <<valid_trades, result, notSel>>

\* Strategy 1 (lines 107-115).
Strategy1 ==
    /\ pc = "relax1"
    /\ RetryWith(1, widen_fairness_threshold(valid_trades, 15), "relax2")

\* Strategy 2 (lines 117-125).
Strategy2 ==
    /\ pc = "relax2"
    /\ RetryWith(2, widen_fairness_threshold(valid_trades, 20), "relax3")

\* Strategy 3 (lines 127-135).
Strategy3 ==
    /\ pc = "relax3"
    /\ RetryWith(3, lower_starter_gain_threshold(valid_trades, 10), "relax4")

\* Strategy 4 (lines 137-144).
Strategy4 ==
    /\ pc = "relax4"
    /\ RetryWith(4, allow_uneven_trades(valid_trades), "relax5")

\* Strategy 5 (lines 146-155): the partial matching, else None.
Strategy5 ==
    /\ pc = "relax5"
    /\ attempts' = Append(attempts, 5)
    /\ G' = IF valid_trades = <<>> THEN G ELSE build_trade_graph(valid_trades)
    /\ \E r \in find_best_partial_matching(valid_trades) :
          selected_trades' = IF Truthy(r) THEN r ELSE None
    /\ pc' = "validate"
    /\ UNCHANGED <<valid_trades, result, notSel>>

\* select_optimal_trades, lines 286-296.
Validate ==
    /\ pc = "validate"
    /\ result' = SelectReturn(selected_trades)
    /\ pc' = "done"
    /\ UNCHANGED <<valid_trades, G, selected_trades, attempts, notSel>>

Next ==
    \/ SelectStart
    \/ Strategy1
    \/ Strategy2
    \/ Strategy3
    \/ Strategy4
    \/ Strategy5
    \/ Validate

Spec == Init /\ [][Next]_vars

-----------------------------------------------------------------------------
(* A call of find_perfect_matching on a graph built by hand, as the unit   *)
(* tests build it: nodes 1..n, any set of edges, each with a weight and,   *)
(* unless the builder left it out, the trade it stands for.                *)

\* Edge weights are 10, 20, ..., 10 * MaxWeightSteps (tenths).
MaxWeightSteps == 2

Weights == {10 * k : k \in 1..MaxWeightSteps}

\* Node counts of the graphs, and the values of target_teams.
FpmNodeCounts == {2, 3, 4}

PairsOf(n) == {p \in SUBSET (1..n) : Cardinality(p) = 2}

PlainProfile == [value_delta_pct |-> 100, team_a_gain |-> 40, team_b_gain |-> 40]

HandEdge(p, w, has) ==
    LET a == CHOOSE x \in p : \A y \in p : x <= y
        b == CHOOSE x \in p : \A y \in p : y <= x
    IN  [pair |-> p, weight |-> w, trade_id |-> 0, has_data |-> has,
         trade_data |-> MkTrade(a, b, w, PlainProfile)]

\* The graphs over n nodes: a weight for every pair that has an edge, and at
\* most one edge without trade_data.
HandGraphs(n) ==
    UNION { UNION { { [nodes |-> 1..n,
                       edges |-> {HandEdge(p, w[p], p # bare) : p \in ps}] :
                      bare \in ps \cup {{}} } :
                    w \in [ps -> Weights] } :
            ps \in SUBSET PairsOf(n) }

FpmInit ==
    /\ \E n \in FpmNodeCounts : fpm_G \in HandGraphs(n)
    /\ fpm_target \in FpmNodeCounts
    /\ fpm_pc = "call"
    /\ fpm_out = None
    /\ SelIdle
    /\ FnIdle
    /\ FltIdle
    /\ SvIdle
    /\ NsIdle
    /\ GenIdle
    /\ ValIdle
    /\ AgainIdle
    /\ FetchIdle
    /\ DeltaIdle

FindPerfectMatching ==
    /\ fpm_pc = "call"
    /\ \E r \in find_perfect_matching(fpm_G, fpm_target) : fpm_out' = r
    /\ fpm_pc' = "returned"
    /\ UNCHANGED <<fpm_G, fpm_target, notFpm>>

FpmNext == FindPerfectMatching

SpecFPM == FpmInit /\ [][FpmNext]_vars

-----------------------------------------------------------------------------
(* Properties of the selection (specification Spec).                       *)

\* How often team t occurs in a list of trades, counting both sides.
Occurrences(sel, t) ==
    Cardinality({i \in DOMAIN sel : sel[i].team_a = t})
    + Cardinality({i \in DOMAIN sel : sel[i].team_b = t})

TeamsOfList(sel) == UNION {{sel[i].team_a, sel[i].team_b} : i \in DOMAIN sel}

TeamsDistinct(sel) == \A t \in TeamsOfList(sel) : Occurrences(sel, t) = 1

\* The lists of at most two of the validated trades, in any order and with
\* repetition: selections as a matching step might hand them to step 3.
SomeSelections ==
    UNION {[1..k -> Range(valid_trades)] : k \in 0..2}

\* C1: the list select_optimal_trades returns holds no team twice, and step 3
\* returns the empty list for a selection that holds a team twice (and for
\* None and the empty selection).
C1_NoTeamTwice ==
    /\ pc = "done" => TeamsDistinct(result)
    /\ pc = "start" =>
          \A sel \in SomeSelections :
              /\ TeamsDistinct(SelectReturn(List(sel)))
              /\ ~TeamsDistinct(sel) => SelectReturn(List(sel)) = <<>>

\* C1 witness: a full selection of six trades was returned for an input of
\* which some two trades share a team.
C1_Witness ==
    /\ pc = "done"
    /\ Len(result) = 6
    /\ ~TeamsDistinct(valid_trades)

\* The graph of the validated trades, and the matchings of it.
InputGraph == build_trade_graph(valid_trades)

\* C3 (as claimed): the selection of strategy 5 covers as many teams as any
\* set of team-disjoint edges of the graph of the validated trades.
C3_PartialCoversMost ==
    (pc = "validate" /\ attempts = <<1, 2, 3, 4, 5>> /\ Truthy(selected_trades))
    => \A M \in Matchings(InputGraph) :
           Cardinality(M) <= Len(selected_trades.trades)

\* The list a strategy retries with, and whether the strategy yields a matching.
StrategyTrades(k) ==
    CASE k = 1 -> widen_fairness_threshold(valid_trades, 15)
      [] k = 2 -> widen_fairness_threshold(valid_trades, 20)
      [] k = 3 -> lower_starter_gain_threshold(valid_trades, 10)
      [] k = 4 -> allow_uneven_trades(valid_trades)

StrategyOutcomes(k) ==
    IF k = 5 THEN find_best_partial_matching(valid_trades)
    ELSE IF StrategyTrades(k) = <<>> THEN {None}
    ELSE find_perfect_matching(build_trade_graph(StrategyTrades(k)), TOTAL_TEAMS)

Ladder == <<1, 2, 3, 4, 5>>

\* C4: the strategies are tried in the order 1, 2, 3, 4, 5 and only after the
\* first attempt failed; every strategy tried before the last one had no
\* matching to give, and so had the last one if the ladder goes on; the
\* selection handed to step 3 is an outcome of the last strategy tried, and it
\* is None only after all five.
C4_LadderOrder ==
    /\ Len(attempts) <= 5
    /\ attempts = SubSeq(Ladder, 1, Len(attempts))
    /\ attempts # <<>> => find_perfect_matching(InputGraph, TOTAL_TEAMS) = {None}
    /\ \A i \in 1..Len(attempts) :
          (i < Len(attempts) \/ pc \in {"relax2", "relax3", "relax4", "relax5"})
          => \A r \in StrategyOutcomes(attempts[i]) : ~Truthy(r)
    /\ pc \in {"relax1", "relax2", "relax3", "relax4", "relax5"}
          => pc = <<"relax1", "relax2", "relax3", "relax4", "relax5">>[Len(attempts) + 1]
    /\ (pc \in {"validate", "done"} /\ attempts # <<>>)
          => /\ selected_trades = None => attempts = Ladder
             /\ selected_trades # None =>
                   selected_trades \in StrategyOutcomes(attempts[Len(attempts)])

\* C4 witness: strategies 1 and 2 failed and strategy 3 gave the six trades
\* that were returned.
C4_Witness ==
    /\ pc = "done"
    /\ attempts = <<1, 2, 3>>
    /\ Len(result) = 6

PairOf(t) == {t.team_a, t.team_b}

\* C6: the graph built from the validated trades has one edge per team pair
\* of the list, carrying the score and the trade of the pair's last trade in
\* the list; with pairwise distinct pairs there are as many edges as trades.
C6_LastWriteWins ==
    (pc \in {"relax1", "validate"} /\ attempts = <<>> /\ valid_trades # <<>>)
    => /\ \A e \in G.edges : \A f \in G.edges : e.pair = f.pair => e = f
       /\ {e.pair : e \in G.edges} = {PairOf(t) : t \in Range(valid_trades)}
       /\ \A e \in G.edges :
             LET last == SetMax({i \in DOMAIN valid_trades :
                                    PairOf(valid_trades[i]) = e.pair})
             IN  /\ e.weight = valid_trades[last].trade_score
                 /\ e.trade_data = valid_trades[last]
       /\ (\A i \in DOMAIN valid_trades : \A j \in DOMAIN valid_trades :
              i # j => PairOf(valid_trades[i]) # PairOf(valid_trades[j]))
          => Cardinality(G.edges) = Len(valid_trades)

\* C6 witness: the graph was built from a list in which a pair occurs twice,
\* first with the higher score.
C6_Witness ==
    /\ pc \in {"relax1", "validate"}
    /\ attempts = <<>>
    /\ \E i \in DOMAIN valid_trades : \E j \in DOMAIN valid_trades :
          /\ i < j
          /\ PairOf(valid_trades[i]) = PairOf(valid_trades[j])
          /\ valid_trades[i].trade_score > valid_trades[j].trade_score

-----------------------------------------------------------------------------
(* Properties of find_perfect_matching (specification SpecFPM).            *)

Covers(M, nodes) == UNION {e.pair : e \in M} = nodes

HasPerfectMatching(g) == \E M \in SUBSET g.edges : IsMatching(M) /\ Covers(M, g.nodes)

TradeGraph(g) == \A e \in g.edges : e.has_data

TotalScore(sel) == SumOver(DOMAIN sel, [i \in DOMAIN sel |-> sel[i].trade_score])

\* C2: on a trade graph of target_teams nodes, target_teams even, that has a
\* perfect matching, find_perfect_matching returns target_teams/2 trades that
\* share no team and cover every node, of a total trade_score no less than
\* that of any target_teams/2 team-disjoint edges.
C2_PerfectIsMaximal ==
    ( /\ fpm_pc = "returned"
      /\ TradeGraph(fpm_G)
      /\ Cardinality(fpm_G.nodes) = fpm_target
      /\ fpm_target % 2 = 0
      /\ HasPerfectMatching(fpm_G) )
    => /\ fpm_out.kind = "list"
       /\ Len(fpm_out.trades) = fpm_target \div 2
       /\ TeamsDistinct(fpm_out.trades)
       /\ TeamsOfList(fpm_out.trades) = fpm_G.nodes
       /\ \A M \in SUBSET fpm_G.edges :
             (IsMatching(M) /\ Cardinality(M) = fpm_target \div 2)
             => TotalScore(fpm_out.trades) >= Weight(M)

\* C2 witness: two trades were returned for a four-node graph that has two
\* perfect matchings of different total weight.
C2_Witness ==
    /\ fpm_pc = "returned"
    /\ TradeGraph(fpm_G)
    /\ fpm_target = 4
    /\ Len(fpm_out.trades) = 2
    /\ \E M \in SUBSET fpm_G.edges :
          /\ IsMatching(M) /\ Covers(M, fpm_G.nodes)
          /\ Weight(M) < TotalScore(fpm_out.trades)

\* C5: find_perfect_matching returns, never raises, and returns None for a
\* graph with an odd number of nodes, with a node count other than
\* target_teams, or without a matching of target_teams/2 edges.
C5_NoneNotRaise ==
    fpm_pc = "returned"
    => /\ fpm_out.kind \in {"none", "list"}
       /\ ( \/ Cardinality(fpm_G.nodes) % 2 # 0
            \/ Cardinality(fpm_G.nodes) # fpm_target
            \/ ~\E M \in SUBSET fpm_G.edges :
                   IsMatching(M) /\ Cardinality(M) = fpm_target \div 2 )
          => fpm_out = None

\* C5 witness: None was returned for three nodes, target_teams = 3 and a graph
\* with an edge.
C5_Witness ==
    /\ fpm_pc = "returned"
    /\ fpm_target = 3
    /\ Cardinality(fpm_G.nodes) = 3
    /\ fpm_G.edges # {}
    /\ fpm_out = None

-----------------------------------------------------------------------------
(* trade_analyzer.py: score_trade and check_fairness_constraint, called    *)
(* on their own (specification SpecPure).  Values, gains and scores are in *)
(* tenths; value_delta_pct is in tenths of a percent.                      *)

Abs(x) == IF x < 0 THEN -x ELSE x

Max(a, b) == IF a >= b THEN a ELSE b

Row(position, value) == [position |-> position, value |-> value]

\* The Valuation Index passed as player_values: one row per sleeper_id, with
\* the player's position and value.
player_values ==
    [id \in {"a1", "a2", "a3", "a4", "a5", "a6", "a7",
             "b1", "b2", "b3", "b4", "b5", "b6", "b7", "b8", "b9",
             "c1", "c2", "z0"} |->
        CASE id = "a1" -> Row("QB", 300)
          [] id = "a2" -> Row("RB", 100)
          [] id = "a3" -> Row("RB", 88)
          [] id = "a4" -> Row("RB", 83)
          [] id = "a5" -> Row("WR", 90)
          [] id = "a6" -> Row("WR", 32)
          [] id = "a7" -> Row("TE", 60)
          [] id = "b1" -> Row("QB", 300)
          [] id = "b2" -> Row("RB", 100)
          [] id = "b3" -> Row("RB", 85)
          [] id = "b4" -> Row("WR", 90)
          [] id = "b5" -> Row("WR", 73)
          [] id = "b6" -> Row("WR", 25)
          [] id = "b7" -> Row("TE", 55)
          [] id = "b8" -> Row("WR", 29)
          [] id = "b9" -> Row("WR", 58)
          [] id = "c1" -> Row("WR", 22)
          [] id = "c2" -> Row("RB", 100)
          [] id = "z0" -> Row("RB", 0)]

\* A player record of a trade side: has_value says whether the dict has a
\* 'value' key, value is that embedded value.
Player(id, position, has_value, value) ==
    [sleeper_id |-> id, position |-> position,
     has_value |-> has_value, value |-> value]

\* player.get('value', 0)
EmbeddedValue(player) == IF player.has_value THEN player.value ELSE 0

\* One iteration of the loop of _calculate_trade_side_value: the table's value
\* for a non-empty sleeper_id that the table has, else the embedded value.
PlayerTradeValue(player) ==
    IF player.sleeper_id # "" /\ player.sleeper_id \in DOMAIN player_values
    THEN player_values[player.sleeper_id].value
    ELSE EmbeddedValue(player)

calculate_trade_side_value(players) ==
    IF players = <<>> THEN 0
    ELSE SumOver(DOMAIN players, [i \in DOMAIN players |-> PlayerTradeValue(players[i])])

\* round(n / d, 1) with n / d in tenths: the nearest integer to n / d.  A value
\* half way between two tenths goes to whichever of them the binary float is
\* nearer to, so both are outcomes.
RoundDiv(n, d) ==
    LET q == n \div d
        r == n % d
    IN  IF 2 * r < d THEN {q}
        ELSE IF 2 * r > d THEN {q + 1}
        ELSE {q, q + 1}

FairRet(is_fair, value_delta_pct) ==
    [kind |-> "fair", is_fair |-> is_fair, value |-> value_delta_pct]

\* check_fairness_constraint with the gate on the rounded percentage.
MutFairOnRounded(trade) ==
    LET team_a_value == calculate_trade_side_value(trade.team_a_sends)
        team_b_value == calculate_trade_side_value(trade.team_b_sends)
        higher_value == Max(team_a_value, team_b_value)
        value_difference == Abs(team_a_value - team_b_value)
    IN  IF team_a_value = 0 \/ team_b_value = 0
        THEN {FairRet(FALSE, 1000)}
        ELSE {FairRet(v <= FAIRNESS_THRESHOLD * 10, v) :
                 v \in RoundDiv(value_difference * 1000, higher_value)}

\* value_delta_pct <= FAIRNESS_THRESHOLD * 100 on the unrounded float
\* (value_difference / higher_value) * 100.0.  At exactly 12 percent the float
\* lies within a rounding error of 12.0 on either side (2.5 against 2.2 gives
\* 11.999999999999993, 7.5 against 6.6 gives 12.000000000000005), so both
\* answers are outcomes there.
WithinThreshold(value_difference, higher_value) ==
    IF value_difference * 100 < FAIRNESS_THRESHOLD * higher_value THEN {TRUE}
    ELSE IF value_difference * 100 > FAIRNESS_THRESHOLD * higher_value THEN {FALSE}
    ELSE {TRUE, FALSE}

\* check_fairness_constraint: is_fair is taken on the unrounded percentage,
\* and the percentage is returned rounded to one decimal.
check_fairness_constraint(trade) ==
    LET team_a_value == calculate_trade_side_value(trade.team_a_sends)
        team_b_value == calculate_trade_side_value(trade.team_b_sends)
        higher_value == Max(team_a_value, team_b_value)
        value_difference == Abs(team_a_value - team_b_value)
    IN  IF team_a_value = 0 \/ team_b_value = 0
        THEN {FairRet(FALSE, 1000)}
        ELSE {FairRet(is_fair, v) :
                 is_fair \in WithinThreshold(value_difference, higher_value),
                 v \in RoundDiv(value_difference * 1000, higher_value)}

\* score_trade.  value_delta_pct arrives in percent and is compared with
\* FAIRNESS_THRESHOLD = 0.12 as it stands: in hundredths, abs_delta_pct * 10
\* against 12.
score_trade(trade, team_a_gains, team_b_gains, value_delta_pct) ==
    LET base_score == team_a_gains + team_b_gains
        abs_delta_pct == Abs(value_delta_pct)
        fairness_penalty ==
            IF abs_delta_pct * 10 > FAIRNESS_THRESHOLD
            THEN (abs_delta_pct * 10 - FAIRNESS_THRESHOLD) * 5
            ELSE abs_delta_pct * 10
        low_gain_penalty ==
            IF team_a_gains < MIN_STARTER_GAIN \/ team_b_gains < MIN_STARTER_GAIN
            THEN 200 ELSE 0
        total_players == Len(trade.team_a_sends) + Len(trade.team_b_sends)
        complexity_penalty ==
            IF total_players > 4 THEN (total_players - 4) * 50 ELSE 0
        risk_penalty == low_gain_penalty + complexity_penalty
        format_bonus == IF trade.type = "2-for-2" THEN 50 ELSE 0
        final_score == base_score + format_bonus - fairness_penalty - risk_penalty
    IN  Max(0, final_score)

\* The calls of the two functions that are made.
MaxSide == 2

MaxSend == 3

FairPlayers ==
    {Player("a4", "RB", FALSE, 0), Player("b5", "WR", FALSE, 0),
     Player("z0", "RB", TRUE, 50), Player("x1", "RB", TRUE, 100),
     Player("x2", "WR", FALSE, 0), Player("", "TE", TRUE, 88)}

FairSides(max_side) == UNION {[1..k -> FairPlayers] : k \in 0..max_side}

FairCalls(max_side) ==
    {[fn |-> "check_fairness_constraint",
      trade |-> [type |-> "1-for-1", team_a_sends |-> a, team_b_sends |-> b],
      team_a_gains |-> 0, team_b_gains |-> 0, value_delta_pct |-> 0] :
        a \in FairSides(max_side), b \in FairSides(max_side)}

ScoreSides(max_send) ==
    {[i \in 1..k |-> Player("a4", "RB", FALSE, 0)] : k \in 1..max_send}

ScoreGains == {10, 29, 30, 75, 80, 400}

ScoreDeltas == {0, 1, 2, 50, 119, 120, 121, 200}

ScoreCalls(max_send) ==
    {[fn |-> "score_trade",
      trade |-> [type |-> ty, team_a_sends |-> a, team_b_sends |-> b],
      team_a_gains |-> ga, team_b_gains |-> gb, value_delta_pct |-> v] :
        ty \in {"1-for-1", "2-for-2"},
        a \in ScoreSides(max_send), b \in ScoreSides(max_send),
        ga \in ScoreGains, gb \in ScoreGains, v \in ScoreDeltas}

ScoreRet(score) == [kind |-> "score", is_fair |-> FALSE, value |-> score]

PureInit ==
    /\ fn_call \in FairCalls(MaxSide) \cup ScoreCalls(MaxSend)
    /\ fn_pc = "call"
    /\ fn_ret = NoRet
    /\ SelIdle
    /\ FpmIdle
    /\ FltIdle
    /\ SvIdle
    /\ NsIdle
    /\ GenIdle
    /\ ValIdle
    /\ AgainIdle
    /\ FetchIdle
    /\ DeltaIdle

CheckFairness ==
    /\ fn_pc = "call"
    /\ fn_call.fn = "check_fairness_constraint"
    /\ \E r \in check_fairness_constraint(fn_call.trade) : fn_ret' = r
    /\ fn_pc' = "returned"
    /\ UNCHANGED <<fn_call, notFn>>

ScoreTrade ==
    /\ fn_pc = "call"
    /\ fn_call.fn = "score_trade"
    /\ fn_ret' = ScoreRet(score_trade(fn_call.trade, fn_call.team_a_gains,
                                      fn_call.team_b_gains, fn_call.value_delta_pct))
    /\ fn_pc' = "returned"
    /\ UNCHANGED <<fn_call, notFn>>

PureNext == CheckFairness \/ ScoreTrade

SpecPure == PureInit /\ [][PureNext]_vars

-----------------------------------------------------------------------------
(* Properties of check_fairness_constraint and score_trade (SpecPure).     *)

FairReturned == fn_pc = "returned" /\ fn_call.fn = "check_fairness_constraint"

ScoreReturned == fn_pc = "returned" /\ fn_call.fn = "score_trade"

SideA == calculate_trade_side_value(fn_call.trade.team_a_sends)

SideB == calculate_trade_side_value(fn_call.trade.team_b_sends)

\* The reported value is a tenth nearest to |A - B| / max(A, B) * 100.
ReportedIsRounded ==
    /\ fn_ret.value >= 0
    /\ 2 * Abs(fn_ret.value * Max(SideA, SideB) - 1000 * Abs(SideA - SideB))
          <= Max(SideA, SideB)

\* C7 (as claimed): with both sides positive the reported value_delta_pct is
\* round(|A - B| / max(A, B) * 100, 1) >= 0 and the candidate passes exactly
\* when the reported value is at most 12.0; with a side of 0 it fails.
C7_GateOnReported ==
    FairReturned
    => /\ (SideA = 0 \/ SideB = 0) => ~fn_ret.is_fair
       /\ (SideA > 0 /\ SideB > 0)
          => /\ ReportedIsRounded
             /\ fn_ret.is_fair <=> fn_ret.value <= FAIRNESS_THRESHOLD * 10

\* C7 (amended): with both sides positive the reported value_delta_pct is
\* round(|A - B| / max(A, B) * 100, 1) >= 0; the candidate passes when the
\* unrounded |A - B| / max(A, B) * 100 is below 12 and fails when it is above
\* 12, so a candidate that passes reports at most 12.0, while one that reports
\* 12.0 may have failed; with a side of 0 it fails and 100.0 is reported.
C7_GateOnUnrounded ==
    FairReturned
    => /\ (SideA = 0 \/ SideB = 0) => (~fn_ret.is_fair /\ fn_ret.value = 1000)
       /\ (SideA > 0 /\ SideB > 0)
          => /\ ReportedIsRounded
             /\ 100 * Abs(SideA - SideB) < FAIRNESS_THRESHOLD * Max(SideA, SideB)
                   => fn_ret.is_fair
             /\ 100 * Abs(SideA - SideB) > FAIRNESS_THRESHOLD * Max(SideA, SideB)
                   => ~fn_ret.is_fair
             /\ fn_ret.is_fair => fn_ret.value <= FAIRNESS_THRESHOLD * 10

\* C7 witness: sides of 8.3 and 7.3 (12.048... percent) were reported as 12.0
\* and did not pass.
C7_Witness ==
    /\ FairReturned
    /\ SideA = 83 /\ SideB = 73
    /\ fn_ret.value = 120
    /\ ~fn_ret.is_fair

\* The score as the formula with the threshold at 12 percent gives it.
StatedScore(trade, team_a_gains, team_b_gains, value_delta_pct) ==
    LET bonus == IF trade.type = "2-for-2" THEN 50 ELSE 0
        fairness_penalty ==
            IF value_delta_pct <= FAIRNESS_THRESHOLD * 10
            THEN 10 * value_delta_pct
            ELSE 50 * (value_delta_pct - FAIRNESS_THRESHOLD * 10)
        total_players == Len(trade.team_a_sends) + Len(trade.team_b_sends)
        risk_penalty ==
            (IF team_a_gains < MIN_STARTER_GAIN \/ team_b_gains < MIN_STARTER_GAIN
             THEN 200 ELSE 0)
            + (IF total_players > 4 THEN 50 * (total_players - 4) ELSE 0)
    IN  Max(0, team_a_gains + team_b_gains + bonus - fairness_penalty - risk_penalty)

\* C8 (as claimed): score_trade returns max(0, gains + bonus - fairness
\* penalty - risk penalty) with the fairness penalty 10 x value_delta_pct up to
\* 12 percent and 50 x (value_delta_pct - 12) above it; it is never negative.
C8_ScoreFormula ==
    ScoreReturned
    => /\ fn_ret.value >= 0
       /\ fn_ret.value = StatedScore(fn_call.trade, fn_call.team_a_gains,
                                     fn_call.team_b_gains, fn_call.value_delta_pct)

\* C9 (as claimed): a trade of at most four players with value_delta_pct
\* within the fairness threshold and both gains at least the minimum starter
\* gain (such as a 2-for-2 with gains 8.0 and 7.5 at 5.0 percent) scores
\* above 0.
C9_FairHighGainPositive ==
    ( /\ ScoreReturned
      /\ Len(fn_call.trade.team_a_sends) + Len(fn_call.trade.team_b_sends) <= 4
      /\ fn_call.value_delta_pct <= FAIRNESS_THRESHOLD * 10
      /\ fn_call.team_a_gains >= MIN_STARTER_GAIN
      /\ fn_call.team_b_gains >= MIN_STARTER_GAIN )
    => fn_ret.value > 0

-----------------------------------------------------------------------------
(* trade_analyzer.py: the validation of candidate trades                   *)
(* (filter_valid_trades and what it calls).                                *)

\* LINEUP_CONFIG (src/config.py)
LINEUP_CONFIG == [QB |-> 1, RB |-> 2, WR |-> 2, TE |-> 1, FLEX |-> 1]

\* An element of a roster's 'players' list: a sleeper_id string, or a player
\* dict as join_player_data builds it.
StrEntry(id) == [kind |-> "str", player |-> Player(id, "", FALSE, 0)]

DictEntry(player) == [kind |-> "dict", player |-> player]

\* TOTAL summed (line 60) before FLEX is set (line 57).
MutTotalWithoutFlex(kind, qb, rb, wr, te, flex) ==
    [kind |-> kind, QB |-> qb, RB |-> rb, WR |-> wr, TE |-> te, FLEX |-> flex,
     TOTAL |-> qb + rb + wr + te]

\* The starter_values dict: the five slots, and TOTAL = sum(starter_values.values())
\* of line 60.
StarterValues(kind, qb, rb, wr, te, flex) ==
    [kind |-> kind, QB |-> qb, RB |-> rb, WR |-> wr, TE |-> te, FLEX |-> flex,
     TOTAL |-> qb + rb + wr + te + flex]

ZeroStarterValues == StarterValues("values", 0, 0, 0, 0, 0)

StarterRaise == StarterValues("raise", 0, 0, 0, 0, 0)

ValueOf(ids) == SumOver(ids, [id \in ids |-> player_values[id].value])

\* pos_players.head(k) of the rows sorted by value, highest first.
RECURSIVE TopIds(_, _)

TopIds(ids, k) ==
    IF k = 0 \/ ids = {} THEN {}
    ELSE LET top == CHOOSE x \in ids :
                        \A y \in ids : player_values[y].value <= player_values[x].value
         IN  {top} \cup TopIds(ids \ {top}, k - 1)

\* The lineup of the rows team_players, the players of flex_positions behind
\* the starters being flex-eligible.
LineupOf(team_players, flex_positions) ==
    LET pos_players(position) ==
            {id \in team_players : player_values[id].position = position}
        starters(position) == TopIds(pos_players(position), LINEUP_CONFIG[position])
        flex_eligible ==
            UNION {pos_players(position) \ starters(position) :
                       position \in flex_positions}
    IN  IF team_players = {} THEN ZeroStarterValues
        ELSE StarterValues("values",
                 ValueOf(starters("QB")), ValueOf(starters("RB")),
                 ValueOf(starters("WR")), ValueOf(starters("TE")),
                 IF flex_eligible = {} THEN 0
                 ELSE SetMax({player_values[id].value : id \in flex_eligible}))

StringIds(team_roster) ==
    {e.player.sleeper_id : e \in {x \in Range(team_roster.players) : x.kind = "str"}}

\* calculate_starter_values without the test of line 46: the QBs behind the
\* starter are flex-eligible too.
MutFlexIncludesQB(team_roster, isin) ==
    LineupOf(StringIds(team_roster) \cap DOMAIN player_values, {"QB", "RB", "WR", "TE"})

\* calculate_starter_values with a lookup per id in place of isin(): an id
\* that is not in the index raises KeyError.
MutUnknownIdRaises(team_roster, isin) ==
    IF StringIds(team_roster) \subseteq DOMAIN player_values
    THEN LineupOf(StringIds(team_roster), {"RB", "WR", "TE"})
    ELSE StarterRaise

\* calculate_starter_values.  player_values['sleeper_id'].isin(player_ids)
\* hashes the elements of player_ids: over a dict it raises TypeError or, in
\* a pandas that hashes an unhashable object to 0, matches nothing
\* (isin_dicts says which); a string matches the row of that sleeper_id.
calculate_starter_values(team_roster, isin) ==
    LET player_ids == team_roster.players
        matched == {e.player.sleeper_id : e \in {x \in Range(player_ids) : x.kind = "str"}}
        team_players == matched \cap DOMAIN player_values
        pos_players(position) ==
            {id \in team_players : player_values[id].position = position}
        starters(position) == TopIds(pos_players(position), LINEUP_CONFIG[position])
        flex_eligible ==
            UNION {pos_players(position) \ starters(position) :
                       position \in {"RB", "WR", "TE"}}
    IN  IF player_ids = <<>> THEN ZeroStarterValues
        ELSE IF isin = "raise" /\ \E e \in Range(player_ids) : e.kind = "dict"
        THEN StarterRaise
        ELSE IF team_players = {} THEN ZeroStarterValues
        ELSE StarterValues("values",
                 ValueOf(starters("QB")), ValueOf(starters("RB")),
                 ValueOf(starters("WR")), ValueOf(starters("TE")),
                 IF flex_eligible = {} THEN 0
                 ELSE SetMax({player_values[id].value : id \in flex_eligible}))

\* player_ids.remove(sleeper_id): the list without the first element equal to it.
RemoveFirst(player_ids, entry) ==
    LET first == CHOOSE i \in DOMAIN player_ids :
                     /\ player_ids[i] = entry
                     /\ \A j \in 1..(i - 1) : player_ids[j] # entry
    IN  SubSeq(player_ids, 1, first - 1) \o SubSeq(player_ids, first + 1, Len(player_ids))

RECURSIVE RemoveSent(_, _, _)

RemoveSent(player_ids, removes, i) ==
    IF i > Len(removes) THEN player_ids
    ELSE LET sleeper_id == removes[i].sleeper_id
         IN  RemoveSent(IF sleeper_id # "" /\ StrEntry(sleeper_id) \in Range(player_ids)
                        THEN RemoveFirst(player_ids, StrEntry(sleeper_id))
                        ELSE player_ids,
                        removes, i + 1)

RECURSIVE AddReceived(_, _, _)

AddReceived(player_ids, adds, i) ==
    IF i > Len(adds) THEN player_ids
    ELSE AddReceived(IF adds[i].sleeper_id # ""
                     THEN Append(player_ids, StrEntry(adds[i].sleeper_id))
                     ELSE player_ids,
                     adds, i + 1)

\* _simulate_trade_roster: a sent player leaves if his sleeper_id string is in
\* the list (a dict of the list never equals a string); a received player's
\* sleeper_id string is appended.
simulate_trade_roster(roster, removes, adds) ==
    [players |-> AddReceived(RemoveSent(roster.players, removes, 1), adds, 1)]

\* line 533 without .copy(): player_ids is the caller's own list, so remove()
\* and append() change the roster the caller passed.
MutSimulateInPlace(roster, removes, adds) ==
    simulate_trade_roster(roster, removes, adds)

\* The roster dict the caller holds once _simulate_trade_roster has run on
\* it: line 532 copies the dict and line 533 copies its 'players' list, so
\* remove(), append() and the assignment of line 546 reach only the copies.
roster_after_simulate(roster, removes, adds) == roster

Gains(kind, team_a_gain, team_b_gain) ==
    [kind |-> kind, team_a_gain |-> team_a_gain, team_b_gain |-> team_b_gain]

\* Lines 513-514 of calculate_starter_impact: the change of TOTAL of each
\* team, unless one of the four calculate_starter_values calls raised.
StarterGains(team_a_current, team_b_current, team_a_new, team_b_new) ==
    IF \E v \in {team_a_current, team_b_current, team_a_new, team_b_new} :
           v.kind = "raise"
    THEN Gains("raise", 0, 0)
    ELSE Gains("gains", team_a_new.TOTAL - team_a_current.TOTAL,
                        team_b_new.TOTAL - team_b_current.TOTAL)

\* calculate_starter_impact: (0.0, 0.0) if a team has no roster, else the
\* change of TOTAL of each team under the simulated trade.
calculate_starter_impact(trade, rosters, isin) ==
    IF trade.team_a \notin DOMAIN rosters \/ trade.team_b \notin DOMAIN rosters
    THEN Gains("gains", 0, 0)
    ELSE StarterGains(
             calculate_starter_values(rosters[trade.team_a], isin),
             calculate_starter_values(rosters[trade.team_b], isin),
             calculate_starter_values(
                 simulate_trade_roster(rosters[trade.team_a], trade.team_a_sends,
                                       trade.team_b_sends), isin),
             calculate_starter_values(
                 simulate_trade_roster(rosters[trade.team_b], trade.team_b_sends,
                                       trade.team_a_sends), isin))

\* team_rosters as the caller holds it once calculate_starter_impact has
\* returned or raised: nothing is simulated if the starter values of a
\* current roster raise (lines 492-493); a simulated roster raises only if
\* the current one does.
rosters_after_impact(trade, rosters, isin) ==
    IF trade.team_a \notin DOMAIN rosters \/ trade.team_b \notin DOMAIN rosters
    THEN rosters
    ELSE IF \E team \in {trade.team_a, trade.team_b} :
               calculate_starter_values(rosters[team], isin).kind = "raise"
    THEN rosters
    ELSE [rosters EXCEPT
             ![trade.team_a] =
                 roster_after_simulate(@, trade.team_a_sends, trade.team_b_sends),
             ![trade.team_b] =
                 roster_after_simulate(@, trade.team_b_sends, trade.team_a_sends)]

\* check_meaningful_impact with "or" for "and": one side's gain is enough.
MutImpactEitherSide(trade, rosters, isin) ==
    LET meaningful(g) ==
            IF g.kind = "raise" THEN "raise"
            ELSE IF g.team_a_gain >= MIN_STARTER_GAIN \/ g.team_b_gain >= MIN_STARTER_GAIN
            THEN "true" ELSE "false"
    IN  meaningful(calculate_starter_impact(trade, rosters, isin))

\* check_meaningful_impact
check_meaningful_impact(trade, rosters, isin) ==
    LET meaningful(g) ==
            IF g.kind = "raise" THEN "raise"
            ELSE IF g.team_a_gain >= MIN_STARTER_GAIN /\ g.team_b_gain >= MIN_STARTER_GAIN
            THEN "true" ELSE "false"
    IN  meaningful(calculate_starter_impact(trade, rosters, isin))

CountPosition(players, position) ==
    Cardinality({i \in DOMAIN players : players[i].position = position})

\* One pass of the loop of check_roster_viability: "skip" for a team without
\* a roster, "raise" where player.get('position') meets a string, else whether
\* every position keeps its required starters.
TeamViability(team_name, sends_players, receives_players, rosters) ==
    IF team_name \notin DOMAIN rosters THEN "skip"
    ELSE LET current_roster == rosters[team_name].players
             held == [i \in DOMAIN current_roster |-> current_roster[i].player]
             position_counts(pos) ==
                 CountPosition(held, pos) - CountPosition(sends_players, pos)
                 + CountPosition(receives_players, pos)
         IN  IF \E e \in Range(current_roster) : e.kind = "str" THEN "raise"
             ELSE IF \E pos \in {"QB", "RB", "WR", "TE"} :
                         position_counts(pos) < LINEUP_CONFIG[pos]
             THEN "false" ELSE "true"

\* check_roster_viability with a loop that stops after team_a.
MutViabilityTeamAOnly(trade, rosters) ==
    LET first == TeamViability(trade.team_a, trade.team_a_sends,
                               trade.team_b_sends, rosters)
    IN  IF first \in {"raise", "false"} THEN first ELSE "true"

\* check_roster_viability: team_a, then team_b.
check_roster_viability(trade, rosters) ==
    LET first == TeamViability(trade.team_a, trade.team_a_sends,
                               trade.team_b_sends, rosters)
        second == TeamViability(trade.team_b, trade.team_b_sends,
                                trade.team_a_sends, rosters)
    IN  IF first \in {"raise", "false"} THEN first
        ELSE IF second \in {"raise", "false"} THEN second
        ELSE "true"

\* trade.copy() updated with the five keys filter_valid_trades adds.
WithMeta(trade, team_a_gain, team_b_gain, value_delta_pct, trade_score, is_fair) ==
    [team_a |-> trade.team_a, team_b |-> trade.team_b, type |-> trade.type,
     team_a_sends |-> trade.team_a_sends, team_b_sends |-> trade.team_b_sends,
     team_a_gain |-> team_a_gain, team_b_gain |-> team_b_gain,
     value_delta_pct |-> value_delta_pct, trade_score |-> trade_score,
     is_fair |-> is_fair]

\* A sort that is not stable: a trade goes before the trades of its score.
MutSortReversesTies(sorted, t) ==
    LET k == Cardinality({j \in DOMAIN sorted : sorted[j].trade_score > t.trade_score})
    IN  SubSeq(sorted, 1, k) \o <<t>> \o SubSeq(sorted, k + 1, Len(sorted))

\* list.sort(key=trade_score, reverse=True): stable, so a trade goes behind
\* the trades before it that score at least as much.
InsertByScore(sorted, t) ==
    LET k == Cardinality({j \in DOMAIN sorted : sorted[j].trade_score >= t.trade_score})
    IN  SubSeq(sorted, 1, k) \o <<t>> \o SubSeq(sorted, k + 1, Len(sorted))

RECURSIVE SortDescending(_, _, _)

SortDescending(trades, i, sorted) ==
    IF i > Len(trades) THEN sorted
    ELSE SortDescending(trades, i + 1, InsertByScore(sorted, trades[i]))

SortByScore(trades) == SortDescending(trades, 1, <<>>)

\* The loop of filter_valid_trades from candidate i on, valid_list being the
\* list appended to so far: the possible outcomes (a returned list, or an
\* exception that leaves the function).
RECURSIVE FilterLoop(_, _, _, _, _)

FilterLoop(candidates, i, valid_list, rosters, isin) ==
    IF i > Len(candidates) THEN {List(SortByScore(valid_list))}
    ELSE LET trade == candidates[i]
             skip == FilterLoop(candidates, i + 1, valid_list, rosters, isin)
             kept(fair, g) ==
                 FilterLoop(candidates, i + 1,
                     Append(valid_list,
                         WithMeta(trade, g.team_a_gain, g.team_b_gain, fair.value,
                                  score_trade(trade, g.team_a_gain, g.team_b_gain,
                                              fair.value),
                                  fair.is_fair)),
                     rosters, isin)
             gates(fair, viable, impact) ==
                 IF ~fair.is_fair THEN skip
                 ELSE IF viable = "raise" THEN {Raise}
                 ELSE IF viable = "false" THEN skip
                 ELSE IF impact = "raise" THEN {Raise}
                 ELSE IF impact = "false" THEN skip
                 ELSE kept(fair, calculate_starter_impact(trade, rosters, isin))
         IN  UNION {gates(fair, check_roster_viability(trade, rosters),
                          check_meaningful_impact(trade, rosters, isin)) :
                        fair \in check_fairness_constraint(trade)}

filter_valid_trades(candidates, rosters, isin) ==
    FilterLoop(candidates, 1, <<>>, rosters, isin)

\* team_rosters as the caller holds it after one pass of the loop of
\* filter_valid_trades, and whether the pass raised: calculate_starter_impact
\* runs once for a fair and viable candidate (line 661) and once more if the
\* impact is meaningful (line 665).
RostersAfterPass(trade, state, isin) ==
    LET gates(fair, viable, impact, once) ==
            IF ~fair.is_fair \/ viable = "false" THEN state
            ELSE IF viable = "raise" THEN [state EXCEPT !.raised = TRUE]
            ELSE IF impact = "raise" THEN [rosters |-> once, raised |-> TRUE]
            ELSE IF impact = "false" THEN [rosters |-> once, raised |-> FALSE]
            ELSE [rosters |-> rosters_after_impact(trade, once, isin),
                  raised |-> FALSE]
    IN  IF state.raised THEN {state}
        ELSE {gates(fair, check_roster_viability(trade, state.rosters),
                    check_meaningful_impact(trade, state.rosters, isin),
                    rosters_after_impact(trade, state.rosters, isin)) :
                  fair \in check_fairness_constraint(trade)}

RECURSIVE FilterRosters(_, _, _, _)

FilterRosters(candidates, i, states, isin) ==
    IF i > Len(candidates) THEN {state.rosters : state \in states}
    ELSE FilterRosters(candidates, i + 1,
                       UNION {RostersAfterPass(candidates[i], state, isin) :
                                  state \in states},
                       isin)

\* team_rosters as the caller holds it once filter_valid_trades has returned
\* or raised.
rosters_after_filter(candidates, rosters, isin) ==
    FilterRosters(candidates, 1, {[rosters |-> rosters, raised |-> FALSE]}, isin)

\* valid_trade = trade.copy(): valid_trade has the keys and values of trade.
IsCopyOf(valid_trade, trade) ==
    /\ valid_trade.team_a = trade.team_a
    /\ valid_trade.team_b = trade.team_b
    /\ valid_trade.type = trade.type
    /\ valid_trade.team_a_sends = trade.team_a_sends
    /\ valid_trade.team_b_sends = trade.team_b_sends

\* The candidate dict the caller holds once valid_trade.update(...) has run:
\* the five keys are set on the copy of line 668.
trade_after_update(trade, valid_trade) == trade

\* candidate_trades as the caller holds it once filter_valid_trades has
\* returned out.
candidates_after_filter(candidates, out) ==
    [i \in DOMAIN candidates |->
        IF out.kind = "list" /\ \E j \in DOMAIN out.trades :
                                   IsCopyOf(out.trades[j], candidates[i])
        THEN trade_after_update(candidates[i],
                 out.trades[CHOOSE j \in DOMAIN out.trades :
                                IsCopyOf(out.trades[j], candidates[i])])
        ELSE candidates[i]]

\* The calls of filter_valid_trades that are made (specification SpecFilter).
MaxCands == 2

\* The player dict of a rostered player, with the position and value that
\* join_player_data copies from the Valuation Index.
TablePlayer(id) ==
    Player(id, player_values[id].position, TRUE, player_values[id].value)

TeamIds(team) ==
    IF team = 1 THEN <<"a1", "a2", "a3", "a4", "a5", "a6", "a7">>
    ELSE <<"b1", "b2", "b3", "b4", "b5", "b6", "b7", "b8", "b9">>

\* Teams 1 and 2 have rosters, team 3 has none.  'players' holds player dicts
\* (as run_trade_analysis passes them) or sleeper_id strings (as
\* calculate_starter_values reads them).
Rosters(format) ==
    [team \in {1, 2} |->
        [players |-> [i \in DOMAIN TeamIds(team) |->
                         IF format = "dict"
                         THEN DictEntry(TablePlayer(TeamIds(team)[i]))
                         ELSE StrEntry(TeamIds(team)[i])]]]

Candidate(team_a, team_b, type, team_a_sends, team_b_sends) ==
    [team_a |-> team_a, team_b |-> team_b, type |-> type,
     team_a_sends |-> team_a_sends, team_b_sends |-> team_b_sends]

OneForOne(team_a, a, team_b, b) ==
    Candidate(team_a, team_b, "1-for-1", <<TablePlayer(a)>>, <<TablePlayer(b)>>)

CandidatePool ==
    {OneForOne(1, "a1", 2, "b1"),      \* 30.0 for 30.0
     OneForOne(1, "a2", 2, "b2"),      \* 10.0 for 10.0
     OneForOne(1, "a5", 2, "b4"),      \* 9.0 for 9.0
     OneForOne(1, "a3", 2, "b3"),      \* 8.8 for 8.5: 3.4 percent
     OneForOne(1, "a4", 2, "b5"),      \* 8.3 for 7.3: 12.048 percent
     OneForOne(1, "a7", 2, "b9"),      \* team 1 gives its only TE
     OneForOne(1, "a6", 2, "b8"),      \* 3.2 for 2.9: a gain below 3.0
     OneForOne(1, "a2", 3, "c2"),      \* team 3 has no roster
     OneForOne(1, "a1", 2, "z0"),      \* a side worth 0
     Candidate(1, 2, "1-for-1", <<TablePlayer("a2")>>,
               <<Player("x1", "RB", TRUE, 100)>>),   \* x1 is not in the index
     Candidate(1, 2, "2-for-2", <<TablePlayer("a2"), TablePlayer("a5")>>,
               <<TablePlayer("b2"), TablePlayer("b4")>>)}

CandidateLists(max_cands) == UNION {[1..k -> CandidatePool] : k \in 0..max_cands}

FilterInit ==
    /\ candidate_trades \in CandidateLists(MaxCands)
    /\ team_rosters \in {Rosters("dict"), Rosters("str")}
    /\ isin_dicts \in {"raise", "nomatch"}
    /\ flt_pc = "call"
    /\ flt_out = None
    /\ gate_ret = NoGate
    /\ SelIdle
    /\ FpmIdle
    /\ FnIdle
    /\ SvIdle
    /\ NsIdle
    /\ GenIdle
    /\ ValIdle
    /\ AgainIdle
    /\ FetchIdle
    /\ DeltaIdle

FilterValidTrades ==
    /\ flt_pc = "call"
    /\ \E r \in filter_valid_trades(candidate_trades, team_rosters, isin_dicts) :
          /\ flt_out' = r
          /\ candidate_trades' = candidates_after_filter(candidate_trades, r)
    /\ team_rosters' \in rosters_after_filter(candidate_trades, team_rosters, isin_dicts)
    /\ flt_pc' = "returned"
    /\ UNCHANGED <<isin_dicts, gate_ret, notFlt>>

FilterNext == FilterValidTrades

SpecFilter == FilterInit /\ [][FilterNext]_vars

\* The calls of calculate_starter_values that are made (specification
\* SpecLineup): rosters of at most MaxRoster ids, known to the index or not.
MaxRoster == 8

LineupIds == {"a1", "b1", "a2", "a3", "a4", "a5", "b5", "a6", "a7", "b7", "999"}

IsLineupRoster(roster, max_roster) ==
    \E ids \in SUBSET LineupIds :
        /\ Cardinality(ids) <= max_roster
        /\ \/ roster = [players |-> [i \in 1..Cardinality(ids) |->
                                        StrEntry(SetToSeq(ids)[i])]]
           \/ /\ Cardinality(ids) <= 1
              /\ ids \subseteq DOMAIN player_values
              /\ roster = [players |-> [i \in 1..Cardinality(ids) |->
                                           DictEntry(TablePlayer(SetToSeq(ids)[i]))]]

LineupInit ==
    /\ IsLineupRoster(sv_roster, MaxRoster)
    /\ sv_isin \in {"raise", "nomatch"}
    /\ sv_pc = "call"
    /\ sv_ret = [kind |-> "none"]
    /\ SelIdle
    /\ FpmIdle
    /\ FnIdle
    /\ FltIdle
    /\ NsIdle
    /\ GenIdle
    /\ ValIdle
    /\ AgainIdle
    /\ FetchIdle
    /\ DeltaIdle

CalculateStarterValues ==
    /\ sv_pc = "call"
    /\ sv_ret' = calculate_starter_values(sv_roster, sv_isin)
    /\ sv_pc' = "returned"
    /\ UNCHANGED <<sv_roster, sv_isin, notSv>>

LineupNext == CalculateStarterValues

SpecLineup == LineupInit /\ [][LineupNext]_vars

\* The calls of validate_matching_constraints that are made (specification
\* SpecValidate): every list of at most MaxSelection trades among four teams
\* (a trade of a team with itself included), and six trades over twelve teams.
MaxSelection == 3

TeamsOnly(team_a, team_b) == [team_a |-> team_a, team_b |-> team_b]

SixTrades == [i \in 1..MAX_TRADES_PER_WEEK |-> TeamsOnly(2 * i - 1, 2 * i)]

IsSelection(trades, max_selection) ==
    \/ trades = SixTrades
    \/ \E n \in 0..max_selection :
          \E teams_a \in [1..n -> 1..4] : \E teams_b \in [1..n -> 1..4] :
              trades = [i \in 1..n |-> TeamsOnly(teams_a[i], teams_b[i])]

ValidateInit ==
    /\ IsSelection(val_trades, MaxSelection)
    /\ val_pc = "call"
    /\ val_ret = FALSE
    /\ SelIdle
    /\ FpmIdle
    /\ FnIdle
    /\ FltIdle
    /\ SvIdle
    /\ NsIdle
    /\ GenIdle
    /\ AgainIdle
    /\ FetchIdle
    /\ DeltaIdle

ValidateMatchingConstraints ==
    /\ val_pc = "call"
    /\ val_ret' = validate_matching_constraints(val_trades)
    /\ val_pc' = "returned"
    /\ UNCHANGED <<val_trades, notVal>>

ValidateNext == ValidateMatchingConstraints

SpecValidate == ValidateInit /\ [][ValidateNext]_vars

-----------------------------------------------------------------------------
(* trade_analyzer.py: needs and surplus (identify_needs_surplus).          *)

\* deltas.get(position, 0.0), in tenths
DeltaOf(deltas, position) ==
    IF position \in DOMAIN deltas THEN deltas[position] ELSE 0

tradeable_positions == <<"QB", "RB", "WR", "TE", "FLEX">>

\* list.sort(key=deltas.get) and list.sort(key=deltas.get, reverse=True):
\* both stable, so a position goes behind the positions before it whose delta
\* is not on the far side of its own.
RECURSIVE SortByDelta(_, _, _, _, _)

SortByDelta(positions, i, sorted, deltas, reverse) ==
    IF i > Len(positions) THEN sorted
    ELSE LET d == DeltaOf(deltas, positions[i])
             k == Cardinality({j \in DOMAIN sorted :
                                  IF reverse THEN DeltaOf(deltas, sorted[j]) >= d
                                  ELSE DeltaOf(deltas, sorted[j]) <= d})
         IN  SortByDelta(positions, i + 1,
                         SubSeq(sorted, 1, k) \o <<positions[i]>>
                             \o SubSeq(sorted, k + 1, Len(sorted)),
                         deltas, reverse)

IsNeed(delta) == delta < -20

IsSurplus(delta) == delta > 20

\* The thresholds of lines 146 and 148 with <= and >=.
MutThresholdInclusive(deltas) ==
    LET needs == SelectSeq(tradeable_positions,
                           LAMBDA position : DeltaOf(deltas, position) <= -20)
        surplus == SelectSeq(tradeable_positions,
                             LAMBDA position : DeltaOf(deltas, position) >= 20)
    IN  [needs |-> SortByDelta(needs, 1, <<>>, deltas, FALSE),
         surplus |-> SortByDelta(surplus, 1, <<>>, deltas, TRUE),
         deltas |-> deltas]

\* The body of the loop of identify_needs_surplus for one team.
TeamNeedsSurplus(deltas) ==
    LET needs == SelectSeq(tradeable_positions,
                           LAMBDA position : IsNeed(DeltaOf(deltas, position)))
        surplus == SelectSeq(tradeable_positions,
                             LAMBDA position :
                                 /\ ~IsNeed(DeltaOf(deltas, position))
                                 /\ IsSurplus(DeltaOf(deltas, position)))
    IN  [needs |-> SortByDelta(needs, 1, <<>>, deltas, FALSE),
         surplus |-> SortByDelta(surplus, 1, <<>>, deltas, TRUE),
         deltas |-> deltas]

identify_needs_surplus(team_deltas) ==
    [team_name \in DOMAIN team_deltas |-> TeamNeedsSurplus(team_deltas[team_name])]

\* The calls of identify_needs_surplus that are made (specification
\* SpecNeeds): team 1 with every combination of the deltas below, with and
\* without a TOTAL key, beside a second team.
DeltaValues == {-50, -21, -20, 0, 20, 21, 80}

Team2Deltas == [QB |-> 30, RB |-> -60, WR |-> 40, TE |-> -10, FLEX |-> -20]

NeedsInit ==
    /\ \E qb \in DeltaValues : \E rb \in DeltaValues : \E wr \in DeltaValues :
       \E te \in DeltaValues : \E flex \in DeltaValues :
          \/ ns_deltas = <<[QB |-> qb, RB |-> rb, WR |-> wr, TE |-> te,
                            FLEX |-> flex], Team2Deltas>>
          \/ ns_deltas = <<[QB |-> qb, RB |-> rb, WR |-> wr, TE |-> te,
                            FLEX |-> flex, TOTAL |-> qb + rb + wr + te + flex],
                           Team2Deltas>>
    /\ ns_pc = "call"
    /\ ns_ret = <<>>
    /\ SelIdle
    /\ FpmIdle
    /\ FnIdle
    /\ FltIdle
    /\ SvIdle
    /\ GenIdle
    /\ ValIdle
    /\ AgainIdle
    /\ FetchIdle
    /\ DeltaIdle

IdentifyNeedsSurplus ==
    /\ ns_pc = "call"
    /\ ns_ret' = identify_needs_surplus(ns_deltas)
    /\ ns_pc' = "returned"
    /\ UNCHANGED <<ns_deltas, notNs>>

NeedsNext == IdentifyNeedsSurplus

SpecNeeds == NeedsInit /\ [][NeedsNext]_vars

-----------------------------------------------------------------------------
(* trade_analyzer.py: the generation of candidate trades                   *)
(* (generate_candidate_trades and what it calls).                          *)

RECURSIVE Concat(_)

\* The lists of a list of lists, one after the other (list.extend / append in
\* nested loops).
Concat(lists) ==
    IF lists = <<>> THEN <<>> ELSE Head(lists) \o Concat(Tail(lists))

\* The orders in which a Python set of strings can be iterated: the order
\* follows the hashes of the strings, which change from process to process.
IterationOrders(set) ==
    {order \in [1..Cardinality(set) -> set] : Range(order) = set}

\* x.get('value', 0)
SortValue(player) == IF player.has_value THEN player.value ELSE 0

RECURSIVE SortPlayersByValue(_, _, _)

\* sorted(pos_players, key=value, reverse=True): stable.
SortPlayersByValue(players, i, sorted) ==
    IF i > Len(players) THEN sorted
    ELSE LET k == Cardinality({j \in DOMAIN sorted :
                                  SortValue(sorted[j]) >= SortValue(players[i])})
         IN  SortPlayersByValue(players, i + 1,
                 SubSeq(sorted, 1, k) \o <<players[i]>>
                     \o SubSeq(sorted, k + 1, Len(sorted)))

\* _get_team_players_by_position with a FLEX bucket of the team's RBs, WRs
\* and TEs.
MutPlayersWithFlex(team_name, enriched_data) ==
    [position \in {"QB", "RB", "WR", "TE", "FLEX"} |->
        IF team_name \in DOMAIN enriched_data
        THEN SortPlayersByValue(
                 SelectSeq(enriched_data[team_name].players,
                           LAMBDA p : \/ p.position = position
                                      \/ /\ position = "FLEX"
                                         /\ p.position \in {"RB", "WR", "TE"}),
                 1, <<>>)
        ELSE <<>>]

\* _get_team_players_by_position with "if False": always the fallback.
MutPlayersFallback(team_name, enriched_data) ==
    [position \in {"QB", "RB", "WR", "TE"} |-> <<>>]

\* _get_team_players_by_position: the players of the team's enriched roster
\* by position, best first; empty lists without enriched data for the team.
get_team_players_by_position(team_name, enriched_data) ==
    [position \in {"QB", "RB", "WR", "TE"} |->
        IF team_name \in DOMAIN enriched_data
        THEN SortPlayersByValue(
                 SelectSeq(enriched_data[team_name].players,
                           LAMBDA p : p.position = position),
                 1, <<>>)
        ELSE <<>>]

\* team_players.get(position, [])
PlayersAt(team_players, position) ==
    IF position \in DOMAIN team_players THEN team_players[position] ELSE <<>>

\* The slice without its upper end: the list is not truncated.
MutSliceNoEnd(list, from, to) == SubSeq(list, from + 1, Len(list))

\* list[from:to] of Python (from and to counted from 0, to excluded)
Slice(list, from, to) ==
    SubSeq(list, from + 1, IF to < Len(list) THEN to ELSE Len(list))

GenTrade(type, team_a, team_b, team_a_sends, team_b_sends, gets_a, gets_b) ==
    [type |-> type, team_a |-> team_a, team_b |-> team_b,
     team_a_sends |-> team_a_sends, team_b_sends |-> team_b_sends,
     positions_addressed |-> [team_a |-> gets_a, team_b |-> gets_b]]

\* _generate_1_for_1_trades, a_positions and b_positions in the order in which
\* the sets are iterated.
generate_1_for_1_trades(team_a, team_a_players, a_positions, team_b, team_b_players, b_positions) ==
    Concat([i \in DOMAIN a_positions |->
      Concat([j \in DOMAIN b_positions |->
        LET a_pos == a_positions[i]
            b_pos == b_positions[j]
            a_players == Slice(PlayersAt(team_a_players, a_pos), 0, 3)
            b_players == Slice(PlayersAt(team_b_players, b_pos), 0, 3)
        IN  Concat([k \in DOMAIN a_players |->
                     [l \in DOMAIN b_players |->
                        GenTrade("1-for-1", team_a, team_b,
                                 <<a_players[k]>>, <<b_players[l]>>,
                                 <<b_pos>>, <<a_pos>>)]])])])

\* The four loops over players of _generate_2_for_2_trades for one choice of
\* positions; a trade that names a player twice is skipped.
TwoForTwoOf(team_a, team_a_players, a_pos1, a_pos2, team_b, team_b_players, b_pos1, b_pos2) ==
    LET a_players1 == Slice(PlayersAt(team_a_players, a_pos1), 0, 2)
        a_players2 == IF a_pos2 # a_pos1
                      THEN Slice(PlayersAt(team_a_players, a_pos2), 0, 2)
                      ELSE Slice(PlayersAt(team_a_players, a_pos2), 1, 3)
        b_players1 == Slice(PlayersAt(team_b_players, b_pos1), 0, 2)
        b_players2 == IF b_pos2 # b_pos1
                      THEN Slice(PlayersAt(team_b_players, b_pos2), 0, 2)
                      ELSE Slice(PlayersAt(team_b_players, b_pos2), 1, 3)
        all ==
            Concat([k1 \in DOMAIN a_players1 |->
              Concat([k2 \in DOMAIN a_players2 |->
                Concat([l1 \in DOMAIN b_players1 |->
                  [l2 \in DOMAIN b_players2 |->
                     GenTrade("2-for-2", team_a, team_b,
                              <<a_players1[k1], a_players2[k2]>>,
                              <<b_players1[l1], b_players2[l2]>>,
                              <<b_pos1, b_pos2>>, <<a_pos1, a_pos2>>)]])])])
    IN  SelectSeq(all, LAMBDA t :
            /\ t.team_a_sends[1].sleeper_id # t.team_a_sends[2].sleeper_id
            /\ t.team_b_sends[1].sleeper_id # t.team_b_sends[2].sleeper_id)

\* _generate_2_for_2_trades
generate_2_for_2_trades(team_a, team_a_players, a_positions_list, team_b, team_b_players, b_positions_list) ==
    Concat([i \in DOMAIN a_positions_list |->
      Concat([i2 \in 1..(Len(a_positions_list) - i + 1) |->
        Concat([j \in DOMAIN b_positions_list |->
          Concat([j2 \in 1..(Len(b_positions_list) - j + 1) |->
            TwoForTwoOf(team_a, team_a_players,
                        a_positions_list[i], a_positions_list[i + i2 - 1],
                        team_b, team_b_players,
                        b_positions_list[j], b_positions_list[j + j2 - 1])])])])])

\* The complementary positions with the other team's needs left out.
MutIgnoreNeeds(surplus, needs) == Range(surplus)

\* set(surplus).intersection(set(needs))
ComplementaryPositions(surplus, needs) == Range(surplus) \cap Range(needs)

\* _find_complementary_trades: the lists it can return, one for each order in
\* which the two sets of positions are iterated.
find_complementary_trades(team_a, team_a_data, team_b, team_b_data, enriched_data) ==
    LET a_to_b_positions == ComplementaryPositions(team_a_data.surplus, team_b_data.needs)
        b_to_a_positions == ComplementaryPositions(team_b_data.surplus, team_a_data.needs)
        team_a_players == get_team_players_by_position(team_a, enriched_data)
        team_b_players == get_team_players_by_position(team_b, enriched_data)
    IN  IF a_to_b_positions = {} \/ b_to_a_positions = {} THEN {<<>>}
        ELSE {generate_1_for_1_trades(team_a, team_a_players, a_order,
                                      team_b, team_b_players, b_order)
              \o generate_2_for_2_trades(team_a, team_a_players, a_order,
                                         team_b, team_b_players, b_order) :
                  a_order \in IterationOrders(a_to_b_positions),
                  b_order \in IterationOrders(b_to_a_positions)}

\* The pairs with the inner loop over all the teams: both orientations.
MutTeamPairsBothWays(team_names) ==
    Concat([i \in DOMAIN team_names |->
              SelectSeq([j \in DOMAIN team_names |-> <<team_names[i], team_names[j]>>],
                        LAMBDA pr : pr[1] # pr[2])])

\* The pairs (team_names[i], team_names[j]), i < j, in the order of the loops
\* of generate_candidate_trades.
TeamPairs(team_names) ==
    Concat([i \in DOMAIN team_names |->
              [d \in 1..(Len(team_names) - i) |-> <<team_names[i], team_names[i + d]>>]])

RECURSIVE GenerateFrom(_, _, _, _)

GenerateFrom(pairs, k, team_needs_surplus, enriched_data) ==
    IF k > Len(pairs) THEN {<<>>}
    ELSE {trades \o rest :
            trades \in find_complementary_trades(
                           pairs[k][1], team_needs_surplus[pairs[k][1]],
                           pairs[k][2], team_needs_surplus[pairs[k][2]],
                           enriched_data),
            rest \in GenerateFrom(pairs, k + 1, team_needs_surplus, enriched_data)}

\* generate_candidate_trades: the lists it can return.  team_needs_surplus is
\* keyed by 1..n in the order of its keys.
generate_candidate_trades(team_needs_surplus, enriched_data) ==
    GenerateFrom(TeamPairs([i \in DOMAIN team_needs_surplus |-> i]), 1,
                 team_needs_surplus, enriched_data)

\* The calls of generate_candidate_trades that are made (specification
\* SpecGenerate): three teams, each with one of the delta profiles below.
Deltas(qb, rb, wr, te, flex) ==
    [QB |-> qb, RB |-> rb, WR |-> wr, TE |-> te, FLEX |-> flex,
     TOTAL |-> qb + rb + wr + te + flex]

DeltaProfiles ==
    {Deltas(80, -60, 0, 0, 0),        \* QB surplus, RB need
     Deltas(-50, 70, 0, 0, 0),        \* RB surplus, QB need
     Deltas(0, 0, 0, 0, 0),
     Deltas(0, -30, 30, 0, 50),       \* WR and FLEX surplus, RB need
     Deltas(-30, 0, 0, 0, 40),        \* FLEX surplus, QB need
     Deltas(30, 0, 0, 0, -40),        \* QB surplus, FLEX need
     Deltas(80, -60, 30, -30, 0),     \* QB and WR surplus, RB and TE need
     Deltas(-50, 70, -30, 40, 0)}     \* RB and TE surplus, QB and WR need

GenIds(team) ==
    IF team = 1 THEN TeamIds(1) ELSE IF team = 2 THEN TeamIds(2) ELSE <<"c1", "c2">>

\* enriched_data[team] as join_player_data builds it.
EnrichedTeam(team) ==
    [players |-> [i \in DOMAIN GenIds(team) |-> TablePlayer(GenIds(team)[i])]]

\* None; the three teams; teams 1 and 2 only; the three teams, team 1 without
\* its QB.
EnrichedOptions ==
    {<<>>,
     [team \in {1, 2, 3} |-> EnrichedTeam(team)],
     [team \in {1, 2} |-> EnrichedTeam(team)],
     [team \in {1, 2, 3} |->
         IF team = 1 THEN [players |-> Tail(EnrichedTeam(1).players)]
         ELSE EnrichedTeam(team)]}

GenerateInit ==
    /\ \E team_deltas \in [1..3 -> DeltaProfiles] :
          gen_ns = identify_needs_surplus(team_deltas)
    /\ gen_enriched \in EnrichedOptions
    /\ gen_pc = "call"
    /\ gen_out = None
    /\ SelIdle
    /\ FpmIdle
    /\ FnIdle
    /\ FltIdle
    /\ SvIdle
    /\ NsIdle
    /\ ValIdle
    /\ AgainIdle
    /\ FetchIdle
    /\ DeltaIdle

GenerateCandidateTrades ==
    /\ gen_pc = "call"
    /\ \E trades \in generate_candidate_trades(gen_ns, gen_enriched) :
          gen_out' = List(trades)
    /\ gen_pc' = "returned"
    /\ UNCHANGED <<gen_ns, gen_enriched, notGen>>

GenerateNext == GenerateCandidateTrades

SpecGenerate == GenerateInit /\ [][GenerateNext]_vars

\* filter_valid_trades called on the list it has returned, with the same
\* rosters and index (specification SpecRefilter).
RefilterPool ==
    CandidatePool \cup {OneForOne(2, "b2", 1, "a2")}   \* a2 for b2 seen from team 2

RefilterInit ==
    /\ candidate_trades \in UNION {[1..k -> RefilterPool] : k \in 0..MaxCands}
    /\ team_rosters \in {Rosters("dict"), Rosters("str")}
    /\ isin_dicts \in {"raise", "nomatch"}
    /\ flt_pc = "call"
    /\ flt_out = None
    /\ gate_ret = NoGate
    /\ flt_again = None
    /\ SelIdle
    /\ FpmIdle
    /\ FnIdle
    /\ SvIdle
    /\ NsIdle
    /\ GenIdle
    /\ ValIdle
    /\ FetchIdle
    /\ DeltaIdle

FilterOwnOutput ==
    /\ flt_pc = "returned"
    /\ flt_out.kind = "list"
    /\ flt_again = None
    /\ \E r \in filter_valid_trades(flt_out.trades, team_rosters, isin_dicts) :
          flt_again' = r
    /\ UNCHANGED notAgain

RefilterNext ==
    \/ FilterValidTrades
    \/ FilterOwnOutput

SpecRefilter == RefilterInit /\ [][RefilterNext]_vars

\* Direct calls of the gates on one candidate, beside the calls of
\* filter_valid_trades (specification SpecGates).
GatePool ==
    CandidatePool
    \cup {OneForOne(1, "a4", 2, "b7"),     \* team 2 gives its only TE
          OneForOne(1, "a2", 2, "b6"),     \* team 2 gives a spare WR for an RB
          Candidate(1, 2, "1-for-1", <<TablePlayer("a4")>>,
                    <<Player("x3", "TE", TRUE, 83)>>)}  \* x3 is on no roster

GateLists(max_cands) == UNION {[1..k -> GatePool] : k \in 1..max_cands}

GateRet(fn, kind, team_a_gain, team_b_gain) ==
    [fn |-> fn, kind |-> kind, team_a_gain |-> team_a_gain,
     team_b_gain |-> team_b_gain]

GatesInit ==
    /\ candidate_trades \in GateLists(MaxCands)
    /\ team_rosters \in {Rosters("dict"), Rosters("str")}
    /\ isin_dicts \in {"raise", "nomatch"}
    /\ flt_pc = "call"
    /\ flt_out = None
    /\ gate_ret = NoGate
    /\ SelIdle
    /\ FpmIdle
    /\ FnIdle
    /\ SvIdle
    /\ NsIdle
    /\ GenIdle
    /\ ValIdle
    /\ AgainIdle
    /\ FetchIdle
    /\ DeltaIdle

\* check_roster_viability(candidate_trades[0], team_rosters): it reads the
\* rosters and the trade and writes only its own position_counts.
CheckRosterViability ==
    /\ flt_pc = "call"
    /\ gate_ret' = GateRet("check_roster_viability",
                           check_roster_viability(candidate_trades[1], team_rosters),
                           0, 0)
    /\ flt_pc' = "returned"
    /\ UNCHANGED <<candidate_trades, team_rosters, isin_dicts, flt_out, notFlt>>

\* calculate_starter_impact(candidate_trades[0], team_rosters, player_values)
CalculateStarterImpact ==
    /\ flt_pc = "call"
    /\ LET g == calculate_starter_impact(candidate_trades[1], team_rosters, isin_dicts)
       IN  gate_ret' = GateRet("calculate_starter_impact", g.kind,
                               g.team_a_gain, g.team_b_gain)
    /\ team_rosters' =
           rosters_after_impact(candidate_trades[1], team_rosters, isin_dicts)
    /\ flt_pc' = "returned"
    /\ UNCHANGED <<candidate_trades, isin_dicts, flt_out, notFlt>>

GatesNext ==
    \/ CheckRosterViability
    \/ CalculateStarterImpact
    \/ FilterValidTrades

SpecGates == GatesInit /\ [][GatesNext]_vars

-----------------------------------------------------------------------------
(* The remote fetches of data_fetcher.py (SpecFetch).                      *)

\* MAX_RETRIES = 3
MAX_RETRIES == 3

\* What one requests.get(...), raise_for_status() and json() of a pass come
\* to: an exception of one of the three, or the decoded body.  A body is a
\* JSON list, a JSON object (its 'players' member being items) or a number.
RequestError(kind) == [kind |-> kind, shape |-> "none", items |-> <<>>]

Body(shape, items) == [kind |-> "json", shape |-> shape, items |-> items]

\* requests.exceptions.JSONDecodeError is a RequestException from requests
\* 2.27 on; before that response.json() raises a plain ValueError.
IsRequestException(outcome, json_error) ==
    \/ outcome.kind \in {"ConnectionError", "HTTPError"}
    \/ outcome.kind = "JSONDecodeError" /\ json_error = "RequestException"

Return(data) == [kind |-> "return", exc |-> "", data |-> data]

Raises(exc) == [kind |-> "raise", exc |-> exc, data |-> <<>>]

Retry == [kind |-> "retry", exc |-> "", data |-> <<>>]

\* An element of the FantasyCalc list: a dict with a 'player' dict and a
\* redraftValue, or something that is not a dict.
Item(sleeperId, name, position, redraftValue) ==
    [dict |-> TRUE, sleeperId |-> sleeperId, name |-> name, position |-> position,
     redraftValue |-> redraftValue]

NotADict == [dict |-> FALSE, sleeperId |-> "", name |-> "", position |-> "",
             redraftValue |-> 0]

ParsedItem(item) ==
    [sleeper_id |-> item.sleeperId, player |-> item.name, position |-> item.position,
     value |-> item.redraftValue]

\* Lines 32-66 of fetch_fantasycalc_values: parsed_data, or the
\* AttributeError of item.get on an item that is not a dict (the except of
\* line 64 catches KeyError and TypeError only).
RECURSIVE ParsePlayers(_, _, _)

ParsePlayers(players_list, i, parsed_data) ==
    IF i > Len(players_list) THEN Return(parsed_data)
    ELSE IF ~players_list[i].dict THEN Raises("AttributeError")
    ELSE LET parsed_item == ParsedItem(players_list[i])
         IN  ParsePlayers(players_list, i + 1,
                 IF /\ parsed_item.sleeper_id # ""
                    /\ parsed_item.player # ""
                    /\ parsed_item.position # ""
                    /\ parsed_item.value > 0
                 THEN Append(parsed_data, parsed_item)
                 ELSE parsed_data)

\* Lines 29-83 of fetch_fantasycalc_values, on the decoded body.
FantasycalcData(data) ==
    LET rows(parsed) ==
            IF parsed.kind = "raise" THEN parsed
            ELSE IF parsed.data = <<>> THEN Raises("ValueError")
            ELSE Return(SelectSeq(parsed.data,
                            LAMBDA row : row.position \in {"QB", "RB", "WR", "TE"}))
    IN  IF data.shape = "number" THEN Raises("TypeError")
        ELSE rows(ParsePlayers(data.items, 1, <<>>))

\* Lines 114-118 of fetch_sleeper_rosters.
RostersData(rosters) ==
    IF rosters.shape # "list" THEN Raises("ValueError") ELSE Return(rosters.items)

\* A user of the Sleeper list: user_id and display_name are "" where the key
\* is missing or null; has_username says whether 'username' is a key.
User(user_id, display_name, has_username, username) ==
    [dict |-> TRUE, user_id |-> user_id, display_name |-> display_name,
     has_username |-> has_username, username |-> username]

NotAUser == [dict |-> FALSE, user_id |-> "", display_name |-> "",
             has_username |-> FALSE, username |-> ""]

DisplayName(user) ==
    IF user.display_name # "" THEN user.display_name
    ELSE IF user.has_username THEN user.username
    ELSE "User_" \o user.user_id

\* Lines 153-158 of fetch_sleeper_users.
RECURSIVE UserMapping(_, _, _)

UserMapping(users, i, user_mapping) ==
    IF i > Len(users) THEN Return(user_mapping)
    ELSE IF ~users[i].dict THEN Raises("AttributeError")
    ELSE UserMapping(users, i + 1,
             IF users[i].user_id = "" THEN user_mapping
             ELSE [id \in DOMAIN user_mapping \cup {users[i].user_id} |->
                       IF id = users[i].user_id THEN DisplayName(users[i])
                       ELSE user_mapping[id]])

\* Lines 149-161 of fetch_sleeper_users, on the decoded body.
UsersData(users) ==
    IF users.shape # "list" THEN Raises("ValueError")
    ELSE UserMapping(users.items, 1, <<>>)

ResponseData(fn, data) ==
    IF fn = "fetch_fantasycalc_values" THEN FantasycalcData(data)
    ELSE IF fn = "fetch_sleeper_rosters" THEN RostersData(data)
    ELSE UsersData(data)

FailedToFetch(fn) ==
    IF fn = "fetch_fantasycalc_values"
    THEN "Exception: Failed to fetch FantasyCalc data after 3 attempts"
    ELSE IF fn = "fetch_sleeper_rosters"
    THEN "Exception: Failed to fetch Sleeper rosters after 3 attempts"
    ELSE "Exception: Failed to fetch Sleeper users after 3 attempts"

\* One pass of "for attempt in range(MAX_RETRIES)": the try block and its
\* "except requests.RequestException"; any other exception leaves the call.
FetchPass(fn, attempt, outcome, json_error) ==
    IF IsRequestException(outcome, json_error)
    THEN IF attempt < MAX_RETRIES - 1 THEN Retry ELSE Raises(FailedToFetch(fn))
    ELSE IF outcome.kind = "JSONDecodeError" THEN Raises("ValueError")
    ELSE ResponseData(fn, outcome)

MaxItems == 2

FantasyItems ==
    {Item("a1", "Allen", "QB", 452), Item("a2", "Chase", "WR", 401),
     Item("k1", "Tucker", "K", 100), Item("", "Ghost", "RB", 300),
     Item("b1", "Bench", "RB", 0), NotADict}

RosterItems ==
    {[owner_id |-> "u1", players |-> <<"a1", "a2">>],
     [owner_id |-> "u2", players |-> <<>>]}

UserItems ==
    {User("u1", "Ann", TRUE, "ann1"), User("u2", "", TRUE, "bob2"),
     User("u3", "", FALSE, ""), User("", "Nobody", FALSE, ""),
     User("u1", "Ann2", FALSE, ""), NotAUser}

ItemsOf(fn) ==
    IF fn = "fetch_fantasycalc_values" THEN FantasyItems
    ELSE IF fn = "fetch_sleeper_rosters" THEN RosterItems
    ELSE UserItems

Outcomes(fn, max_items) ==
    {RequestError(kind) : kind \in {"ConnectionError", "HTTPError", "JSONDecodeError"}}
    \cup {Body("number", <<>>)}
    \cup {Body(shape, items) :
              shape \in {"list", "dict"},
              items \in UNION {[1..n -> ItemsOf(fn)] : n \in 0..max_items}}

FetchInit ==
    /\ ft_fn \in {"fetch_fantasycalc_values", "fetch_sleeper_rosters",
                  "fetch_sleeper_users"}
    /\ ft_json_error \in {"RequestException", "ValueError"}
    /\ ft_pc = "loop"
    /\ ft_attempt = 0
    /\ ft_log = <<>>
    /\ ft_ret = [kind |-> "none"]
    /\ SelIdle
    /\ FpmIdle
    /\ FnIdle
    /\ FltIdle
    /\ SvIdle
    /\ NsIdle
    /\ GenIdle
    /\ ValIdle
    /\ AgainIdle
    /\ DeltaIdle

\* One pass of the loop of fn, the request coming to outcome.
FetchStep(fn, outcome) ==
    /\ ft_fn = fn
    /\ ft_pc = "loop"
    /\ ft_attempt < MAX_RETRIES
    /\ ft_log' = Append(ft_log, outcome)
    /\ LET pass == FetchPass(fn, ft_attempt, outcome, ft_json_error)
       IN  IF pass.kind = "retry"
           THEN /\ ft_attempt' = ft_attempt + 1
                /\ UNCHANGED <<ft_pc, ft_ret>>
           ELSE /\ ft_pc' = "done"
                /\ ft_ret' = [kind |-> pass.kind, exc |-> pass.exc, data |-> pass.data]
                /\ UNCHANGED ft_attempt
    /\ UNCHANGED <<ft_fn, ft_json_error, notFetch>>

FetchFantasycalcValues ==
    \E outcome \in Outcomes("fetch_fantasycalc_values", MaxItems) :
        FetchStep("fetch_fantasycalc_values", outcome)

FetchSleeperRosters ==
    \E outcome \in Outcomes("fetch_sleeper_rosters", MaxItems) :
        FetchStep("fetch_sleeper_rosters", outcome)

FetchSleeperUsers ==
    \E outcome \in Outcomes("fetch_sleeper_users", MaxItems) :
        FetchStep("fetch_sleeper_users", outcome)

FetchNext ==
    \/ FetchFantasycalcValues
    \/ FetchSleeperRosters
    \/ FetchSleeperUsers

SpecFetch == FetchInit /\ [][FetchNext]_vars

-----------------------------------------------------------------------------

(* run_trade_analysis from filter_valid_trades on (SpecPipeline): the      *)
(* candidates are validated against enriched_data, whose 'players' are the *)
(* player dicts of join_player_data, and the validated trades are handed   *)
(* to select_optimal_trades.                                               *)

PipelinePool ==
    CandidatePool
    \cup {OneForOne(1, "a2", 2, "b3"),      \* 10.0 for 8.5: 15.0 percent
          OneForOne(1, "a2", 2, "b5")}      \* 10.0 for 7.3: 27.0 percent

PipelineInit ==
    /\ candidate_trades \in UNION {[1..k -> PipelinePool] : k \in 0..MaxCands}
    /\ team_rosters = Rosters("dict")
    /\ isin_dicts \in {"raise", "nomatch"}
    /\ flt_pc = "call"
    /\ flt_out = None
    /\ gate_ret = NoGate
    /\ SelIdle
    /\ FpmIdle
    /\ FnIdle
    /\ SvIdle
    /\ NsIdle
    /\ GenIdle
    /\ ValIdle
    /\ AgainIdle
    /\ FetchIdle
    /\ DeltaIdle

\* run_trade_analysis, lines 208-227, once filter_valid_trades has returned
\* or raised: the exception is caught (pc "error": None, None, None is
\* returned), an empty list is returned as it is, and any other list is the
\* argument of select_optimal_trades.
RunTradeAnalysis ==
    /\ flt_pc = "returned"
    /\ pc = "idle"
    /\ IF flt_out.kind = "raise"
       THEN pc' = "error" /\ UNCHANGED valid_trades
       ELSE IF flt_out.trades = <<>>
       THEN pc' = "done" /\ UNCHANGED valid_trades
       ELSE pc' = "start" /\ valid_trades' = flt_out.trades
    /\ UNCHANGED <<G, selected_trades, attempts, result, notSel>>

PipelineNext ==
    \/ FilterValidTrades
    \/ RunTradeAnalysis
    \/ SelectStart
    \/ Strategy1
    \/ Strategy2
    \/ Strategy3
    \/ Strategy4
    \/ Strategy5
    \/ Validate

SpecPipeline == PipelineInit /\ [][PipelineNext]_vars

-----------------------------------------------------------------------------

(* compute_positional_deltas and _calculate_league_medians (SpecDeltas).   *)
(* Values, medians and deltas are in tenths.                               *)

DeltaPositions == {"QB", "RB", "WR", "TE", "FLEX", "TOTAL"}

\* sorted(values), ascending.
RECURSIVE SortValues(_, _, _)

SortValues(values, i, sorted) ==
    IF i > Len(values) THEN sorted
    ELSE LET k == Cardinality({j \in DOMAIN sorted : sorted[j] <= values[i]})
         IN  SortValues(values, i + 1,
                 SubSeq(sorted, 1, k) \o <<values[i]>> \o SubSeq(sorted, k + 1, Len(sorted)))

\* np.median with the upper of the two middle values for an even count.
MutMedianUpperMiddle(values) ==
    LET middle(sorted, n) == 10 * sorted[n \div 2 + 1]
    IN  middle(SortValues(values, 1, <<>>), Len(values))

\* np.median(values), in hundredths: the middle of the sorted values, or the
\* mean of the two middle ones.
Median(values) ==
    LET middle(sorted, n) ==
            IF n % 2 = 1 THEN 10 * sorted[(n + 1) \div 2]
            ELSE 5 * (sorted[n \div 2] + sorted[n \div 2 + 1])
    IN  middle(SortValues(values, 1, <<>>), Len(values))

\* round(x, 1) of a non-negative x given in hundredths, in tenths.  Halfway
\* between two tenths the result depends on the binary value of the float
\* and on whether numpy rounds by scaling or as Python does: either tenth.
RoundToTenth(hundredths) ==
    IF hundredths % 10 = 5
    THEN {hundredths \div 10, hundredths \div 10 + 1}
    ELSE {(hundredths + 5) \div 10}

\* _calculate_league_medians: the possible dicts of medians.
calculate_league_medians(all_team_starters) ==
    LET values(position) ==
            [team \in DOMAIN all_team_starters |-> all_team_starters[team][position]]
        rounded(position) == RoundToTenth(Median(values(position)))
    IN  [QB : rounded("QB"), RB : rounded("RB"), WR : rounded("WR"),
         TE : rounded("TE"), FLEX : rounded("FLEX"), TOTAL : rounded("TOTAL")]

\* compute_positional_deltas(all_team_starters) with league_medians=None: the
\* medians it computes and the deltas it returns.
compute_positional_deltas(all_team_starters) ==
    IF all_team_starters = <<>>
    THEN {[league_medians |-> <<>>, team_deltas |-> <<>>]}
    ELSE {[league_medians |-> league_medians,
           team_deltas |->
               [team \in DOMAIN all_team_starters |->
                   [position \in DeltaPositions |->
                       all_team_starters[team][position] - league_medians[position]]]] :
              league_medians \in calculate_league_medians(all_team_starters)}

MaxLeague == 4

\* Starter values of a team, as calculate_starter_values returns them.
StarterProfiles ==
    {StarterValues("values", 351, 600, 500, 200, 150),
     StarterValues("values", 352, 550, 450, 250, 200),
     StarterValues("values", 450, 500, 550, 300, 250),
     StarterValues("values", 400, 601, 500, 0, 0)}

DeltasInit ==
    /\ pd_starters \in UNION {[1..n -> StarterProfiles] : n \in 0..MaxLeague}
    /\ pd_pc = "call"
    /\ pd_ret = [league_medians |-> <<>>, team_deltas |-> <<>>]
    /\ SelIdle
    /\ FpmIdle
    /\ FnIdle
    /\ FltIdle
    /\ SvIdle
    /\ NsIdle
    /\ GenIdle
    /\ ValIdle
    /\ AgainIdle
    /\ FetchIdle

ComputePositionalDeltas ==
    /\ pd_pc = "call"
    /\ pd_ret' \in compute_positional_deltas(pd_starters)
    /\ pd_pc' = "returned"
    /\ UNCHANGED <<pd_starters, notDelta>>

DeltasNext == ComputePositionalDeltas

SpecDeltas == DeltasInit /\ [][DeltasNext]_vars

-----------------------------------------------------------------------------

(* Properties of filter_valid_trades (SpecFilter).                         *)

\* The candidate a validated trade was copied from.
CandidateOf(t) ==
    Candidate(t.team_a, t.team_b, t.type, t.team_a_sends, t.team_b_sends)

MetaKeys == {"team_a_gain", "team_b_gain", "value_delta_pct", "trade_score", "is_fair"}

SideValueA(c) == calculate_trade_side_value(c.team_a_sends)

SideValueB(c) == calculate_trade_side_value(c.team_b_sends)

\* v is |A - B| / max(A, B) * 100 rounded to a tenth.
IsReportedDelta(c, v) ==
    2 * Abs(v * Max(SideValueA(c), SideValueB(c))
            - 1000 * Abs(SideValueA(c) - SideValueB(c)))
       <= Max(SideValueA(c), SideValueB(c))

\* The fairness gate as stated: both sides non-zero and value_delta_pct <= 12.0.
FairnessGate(c, v) ==
    /\ SideValueA(c) > 0
    /\ SideValueB(c) > 0
    /\ IsReportedDelta(c, v)
    /\ v <= FAIRNESS_THRESHOLD * 10

\* The viability gate: each of the two teams that has a roster keeps, after
\* the exchange, the starters of every position.
KeepsStarters(team, sends, receives) ==
    team \in DOMAIN team_rosters
    => \A pos \in {"QB", "RB", "WR", "TE"} :
          Cardinality({i \in DOMAIN team_rosters[team].players :
                          team_rosters[team].players[i].player.position = pos})
          - CountPosition(sends, pos) + CountPosition(receives, pos)
             >= LINEUP_CONFIG[pos]

ViabilityGate(c) ==
    /\ KeepsStarters(c.team_a, c.team_a_sends, c.team_b_sends)
    /\ KeepsStarters(c.team_b, c.team_b_sends, c.team_a_sends)

ImpactOf(c) == calculate_starter_impact(c, team_rosters, isin_dicts)

ImpactGate(c) ==
    /\ ImpactOf(c).team_a_gain >= MIN_STARTER_GAIN
    /\ ImpactOf(c).team_b_gain >= MIN_STARTER_GAIN

FilterReturned == flt_pc = "returned" /\ flt_out.kind = "list"

\* C10: every trade filter_valid_trades returns is an input candidate that
\* passed the fairness gate (value_delta_pct <= 12.0, both sides non-zero),
\* the viability gate and the impact gate (both gains >= 3.0), and carries
\* team_a_gain, team_b_gain, value_delta_pct, trade_score and is_fair; no
\* candidate that fails a gate is in the list; the list is ordered by
\* trade_score, highest first.
C10_FilterGatesAndOrder ==
    FilterReturned
    => /\ \A i \in DOMAIN flt_out.trades :
             LET t == flt_out.trades[i]
                 c == CandidateOf(t)
             IN  /\ c \in Range(candidate_trades)
                 /\ MetaKeys \subseteq DOMAIN t
                 /\ t.is_fair
                 /\ FairnessGate(c, t.value_delta_pct)
                 /\ ViabilityGate(c)
                 /\ ImpactGate(c)
                 /\ t.team_a_gain = ImpactOf(c).team_a_gain
                 /\ t.team_b_gain = ImpactOf(c).team_b_gain
                 /\ t.team_a_gain >= MIN_STARTER_GAIN
                 /\ t.team_b_gain >= MIN_STARTER_GAIN
                 /\ t.trade_score = score_trade(c, t.team_a_gain, t.team_b_gain,
                                                t.value_delta_pct)
       /\ \A c \in Range(candidate_trades) :
             ( \/ ~\E v \in 0..1000 : FairnessGate(c, v)
               \/ ~ViabilityGate(c)
               \/ ~ImpactGate(c) )
             => \A i \in DOMAIN flt_out.trades : CandidateOf(flt_out.trades[i]) # c
       /\ \A i \in DOMAIN flt_out.trades : \A j \in DOMAIN flt_out.trades :
             i < j => flt_out.trades[i].trade_score >= flt_out.trades[j].trade_score

\* C10 witness: two candidates passed the gates and were returned in the
\* other order, the higher score first.
C10_Witness ==
    /\ FilterReturned
    /\ Len(flt_out.trades) = 2
    /\ flt_out.trades[1].trade_score > flt_out.trades[2].trade_score
    /\ CandidateOf(flt_out.trades[1]) = candidate_trades[2]
    /\ CandidateOf(flt_out.trades[2]) = candidate_trades[1]

-----------------------------------------------------------------------------
(* Properties of the gates called on one candidate (SpecGates).            *)

GateTrade == candidate_trades[1]

ViabilityReturned ==
    flt_pc = "returned" /\ gate_ret.fn = "check_roster_viability"

HeldIds(team) ==
    {team_rosters[team].players[i].player.sleeper_id :
        i \in DOMAIN team_rosters[team].players}

\* Both teams of the trade have a roster of player records, and each sends
\* players of its own roster.
WellFormedTrade ==
    /\ GateTrade.team_a \in DOMAIN team_rosters
    /\ GateTrade.team_b \in DOMAIN team_rosters
    /\ \A team \in {GateTrade.team_a, GateTrade.team_b} :
          \A e \in Range(team_rosters[team].players) : e.kind = "dict"
    /\ \A p \in Range(GateTrade.team_a_sends) : p.sleeper_id \in HeldIds(GateTrade.team_a)
    /\ \A p \in Range(GateTrade.team_b_sends) : p.sleeper_id \in HeldIds(GateTrade.team_b)

\* How many players of a position the team holds once the players it sends
\* have left its roster and the players it receives have joined it.
HeldAfterTrade(team, sends, receives, position) ==
    Cardinality({i \in DOMAIN team_rosters[team].players :
                    /\ team_rosters[team].players[i].player.position = position
                    /\ \A p \in Range(sends) :
                          p.sleeper_id # team_rosters[team].players[i].player.sleeper_id})
    + Cardinality({i \in DOMAIN receives : receives[i].position = position})

BelowMinimum(team, sends, receives) ==
    \/ HeldAfterTrade(team, sends, receives, "QB") < 1
    \/ HeldAfterTrade(team, sends, receives, "RB") < 2
    \/ HeldAfterTrade(team, sends, receives, "WR") < 2
    \/ HeldAfterTrade(team, sends, receives, "TE") < 1

\* C11: check_roster_viability rejects a candidate exactly when, once the
\* players a team sends have left and the players it receives have joined,
\* team_a or team_b holds fewer than 1 QB, 2 RB, 2 WR or 1 TE; a candidate
\* that leaves both teams at or above every minimum passes.
C11_ViabilityExactlyBelowMinimum ==
    (ViabilityReturned /\ WellFormedTrade)
    => /\ gate_ret.kind \in {"true", "false"}
       /\ gate_ret.kind = "false"
          <=> \/ BelowMinimum(GateTrade.team_a, GateTrade.team_a_sends,
                              GateTrade.team_b_sends)
              \/ BelowMinimum(GateTrade.team_b, GateTrade.team_b_sends,
                              GateTrade.team_a_sends)

\* Only team_b falls below a minimum, and the candidate is rejected.
C11_Witness ==
    /\ ViabilityReturned
    /\ WellFormedTrade
    /\ gate_ret.kind = "false"
    /\ ~BelowMinimum(GateTrade.team_a, GateTrade.team_a_sends, GateTrade.team_b_sends)
    /\ BelowMinimum(GateTrade.team_b, GateTrade.team_b_sends, GateTrade.team_a_sends)

-----------------------------------------------------------------------------
(* Properties of calculate_starter_values (SpecLineup).                    *)

\* calculate_starter_values has returned a dict of starter values.
LineupReturned == sv_pc = "returned" /\ sv_ret.kind = "values"

\* C13: TOTAL == QB + RB + WR + TE + FLEX in every dict that
\* calculate_starter_values returns.
C13_TotalIsSumOfSlots ==
    LineupReturned
    => sv_ret.TOTAL = sv_ret.QB + sv_ret.RB + sv_ret.WR + sv_ret.TE + sv_ret.FLEX

\* A lineup with every slot filled.
C13_Witness ==
    /\ LineupReturned
    /\ sv_ret.QB > 0 /\ sv_ret.RB > 0 /\ sv_ret.WR > 0 /\ sv_ret.TE > 0
    /\ sv_ret.FLEX > 0

\* The ids of the roster that are rows of the index.
KnownIds == StringIds(sv_roster) \cap DOMAIN player_values

KnownAt(position) == {id \in KnownIds : player_values[id].position = position}

\* The most that at most k players of ids are worth together.
TopSum(ids, k) ==
    SetMax({ValueOf(chosen) : chosen \in {c \in SUBSET ids : Cardinality(c) <= k}})

\* The value of the best player of the position behind its k starters (0 if
\* there is none).
NextBest(position, k) == TopSum(KnownAt(position), k + 1) - TopSum(KnownAt(position), k)

\* The players of chosen can be put in distinct slots of 1 QB, 2 RB, 2 WR,
\* 1 TE and 1 FLEX (RB, WR or TE).
FitsLineup(chosen) ==
    LET n(position) ==
            Cardinality({id \in chosen : player_values[id].position = position})
    IN  /\ n("QB") <= 1
        /\ Max(n("RB") - 2, 0) + Max(n("WR") - 2, 0) + Max(n("TE") - 1, 0) <= 1

BestLineupTotal ==
    SetMax({ValueOf(chosen) : chosen \in {c \in SUBSET KnownIds : FitsLineup(c)}})

\* C14: calculate_starter_values computes the optimal lineup: QB, RB, WR and
\* TE are the sums of the top 1, 2, 2 and 1 valued rostered players of the
\* position, FLEX is the highest value among the RB/WR/TE players that are not
\* positional starters, and TOTAL is the maximum total value over all
\* assignments of distinct rostered players to the slots 1 QB, 2 RB, 2 WR,
\* 1 TE, 1 FLEX, a slot staying empty when no eligible player remains.
C14_LineupIsOptimal ==
    LineupReturned
    => /\ sv_ret.QB = TopSum(KnownAt("QB"), 1)
       /\ sv_ret.RB = TopSum(KnownAt("RB"), 2)
       /\ sv_ret.WR = TopSum(KnownAt("WR"), 2)
       /\ sv_ret.TE = TopSum(KnownAt("TE"), 1)
       /\ sv_ret.FLEX = SetMax({NextBest("RB", 2), NextBest("WR", 2), NextBest("TE", 1)})
       /\ sv_ret.TOTAL = BestLineupTotal

\* Two QBs, three RBs and two TEs: the second QB stays out, and the FLEX is
\* the third RB or the second TE.
C14_Witness ==
    /\ LineupReturned
    /\ Cardinality(KnownAt("QB")) = 2
    /\ Cardinality(KnownAt("RB")) = 3
    /\ Cardinality(KnownAt("TE")) = 2
    /\ sv_ret.FLEX > 0
    /\ sv_ret.FLEX < sv_ret.QB

\* C15: calculate_starter_values does not fail on a defective roster: a
\* roster with no players, or none of whose ids is in the index, gives 0.0
\* for all six values, and an id that is not in the index contributes nothing
\* (the result is that of the roster without the unknown ids).
C15_DefectiveRosterIsZero ==
    (sv_pc = "returned" /\ \A e \in Range(sv_roster.players) : e.kind = "str")
    => /\ sv_ret.kind = "values"
       /\ KnownIds = {} => sv_ret = ZeroStarterValues
       /\ sv_ret = calculate_starter_values(
                       [players |-> SetToSeq({StrEntry(id) : id \in KnownIds})],
                       sv_isin)

\* A roster with an id that is not in the index and with players that are.
C15_Witness ==
    /\ LineupReturned
    /\ "999" \in StringIds(sv_roster)
    /\ sv_ret.TOTAL > 0

\* A roster whose only id is not in the index.
NoMatchReturnsZeros ==
    /\ LineupReturned
    /\ StringIds(sv_roster) = {"999"}
    /\ sv_ret = ZeroStarterValues

-----------------------------------------------------------------------------
(* Properties of identify_needs_surplus (SpecNeeds).                       *)

NeedsReturned == ns_pc = "returned"

\* The list holds each of its positions once, in the order of the deltas.
OrderedBy(list, deltas, reverse) ==
    /\ Cardinality(Range(list)) = Len(list)
    /\ \A i \in DOMAIN list : \A j \in DOMAIN list :
          i < j => IF reverse
                   THEN DeltaOf(deltas, list[i]) >= DeltaOf(deltas, list[j])
                   ELSE DeltaOf(deltas, list[i]) <= DeltaOf(deltas, list[j])

\* C16: a position is in a team's needs exactly when its delta is below -2.0
\* and in its surplus exactly when its delta is above 2.0 (a delta of exactly
\* -2.0 or 2.0 is in neither); only QB, RB, WR, TE and FLEX are listed, never
\* TOTAL; needs are ordered most negative first and surplus most positive
\* first.
C16_NeedsAndSurplus ==
    NeedsReturned
    => \A team \in DOMAIN ns_deltas :
          LET deltas == ns_deltas[team]
              r == ns_ret[team]
          IN  /\ \A position \in {"QB", "RB", "WR", "TE", "FLEX"} :
                    /\ position \in Range(r.needs) <=> DeltaOf(deltas, position) < -20
                    /\ position \in Range(r.surplus) <=> DeltaOf(deltas, position) > 20
              /\ Range(r.needs) \cup Range(r.surplus)
                     \subseteq {"QB", "RB", "WR", "TE", "FLEX"}
              /\ OrderedBy(r.needs, deltas, FALSE)
              /\ OrderedBy(r.surplus, deltas, TRUE)

\* Two needs and two surplus positions in an order that differs from the
\* order of the positions, deltas of exactly -2.0 and 2.0 and a TOTAL above 2.0.
C16_Witness ==
    /\ NeedsReturned
    /\ ns_ret[1].needs = <<"RB", "QB">>
    /\ ns_ret[1].surplus = <<"FLEX", "WR">>
    /\ ns_deltas[1].TE \in {-20, 20}
    /\ "TOTAL" \in DOMAIN ns_deltas[1]
    /\ ns_deltas[1].TOTAL > 20

-----------------------------------------------------------------------------
(* Properties of generate_candidate_trades (SpecGenerate).                 *)

GenerateReturned == gen_pc = "returned"

\* A position that is in the surplus of team from and in the needs of team to.
Complements(from, to) ==
    Range(gen_ns[from].surplus) \cap Range(gen_ns[to].needs)

\* C17: a candidate between two teams is emitted only if some position is in
\* the surplus of the first and the needs of the second, and some position is
\* in the surplus of the second and the needs of the first.
C17_OnlyComplementaryPairs ==
    GenerateReturned
    => \A i \in DOMAIN gen_out.trades :
          LET t == gen_out.trades[i]
          IN  /\ Complements(t.team_a, t.team_b) # {}
              /\ Complements(t.team_b, t.team_a) # {}

\* Candidates were emitted; teams 1 and 3 hold players and complement each
\* other one way only, and no candidate is between them.
C17_Witness ==
    /\ GenerateReturned
    /\ gen_out.trades # <<>>
    /\ DOMAIN gen_enriched = {1, 2, 3}
    /\ Complements(1, 3) # {}
    /\ "RB" \in Complements(1, 3) \/ "WR" \in Complements(1, 3)
    /\ Complements(3, 1) = {}

\* The enriched roster of the team has a player of the position.
Holds(team, position) ==
    /\ team \in DOMAIN gen_enriched
    /\ \E p \in Range(gen_enriched[team].players) : p.position = position

\* A 1-for-1 candidate in which team a sends one of its QBs and team b one of
\* its RBs.
QBForRB(t, a, b) ==
    /\ t.type = "1-for-1"
    /\ \/ /\ t.team_a = a /\ t.team_b = b
          /\ Len(t.team_a_sends) = 1 /\ Len(t.team_b_sends) = 1
          /\ t.team_a_sends[1].position = "QB"
          /\ t.team_a_sends[1] \in Range(gen_enriched[a].players)
          /\ t.team_b_sends[1].position = "RB"
          /\ t.team_b_sends[1] \in Range(gen_enriched[b].players)
       \/ /\ t.team_a = b /\ t.team_b = a
          /\ Len(t.team_a_sends) = 1 /\ Len(t.team_b_sends) = 1
          /\ t.team_a_sends[1].position = "RB"
          /\ t.team_a_sends[1] \in Range(gen_enriched[b].players)
          /\ t.team_b_sends[1].position = "QB"
          /\ t.team_b_sends[1] \in Range(gen_enriched[a].players)

\* C18: when team A has a QB surplus and an RB need, team B an RB surplus and
\* a QB need, A holds a QB and B holds an RB, the generator emits at least one
\* 1-for-1 candidate between A and B in which A sends a QB and B sends an RB.
C18_ComplementaryPairGetsOneForOne ==
    GenerateReturned
    => \A a \in DOMAIN gen_ns : \A b \in DOMAIN gen_ns \ {a} :
          (/\ "QB" \in Complements(a, b)
           /\ "RB" \in Complements(b, a)
           /\ Holds(a, "QB")
           /\ Holds(b, "RB"))
          => \E i \in DOMAIN gen_out.trades : QBForRB(gen_out.trades[i], a, b)

\* Three teams: team 1 with QB +8.0 and RB -6.0, team 2 with RB +7.0 and
\* QB -5.0, team 3 at the medians; a QB of team 1 goes for an RB of team 2.
C18_Witness ==
    /\ GenerateReturned
    /\ gen_ns[1].deltas.QB = 80 /\ gen_ns[1].deltas.RB = -60
    /\ gen_ns[1].surplus = <<"QB">> /\ gen_ns[1].needs = <<"RB">>
    /\ gen_ns[2].deltas.RB = 70 /\ gen_ns[2].deltas.QB = -50
    /\ gen_ns[2].surplus = <<"RB">> /\ gen_ns[2].needs = <<"QB">>
    /\ gen_ns[3].surplus = <<>> /\ gen_ns[3].needs = <<>>
    /\ Holds(1, "QB")
    /\ Holds(2, "RB")
    /\ \E i \in DOMAIN gen_out.trades : QBForRB(gen_out.trades[i], 1, 2)

-----------------------------------------------------------------------------
(* Properties of validate_matching_constraints (SpecValidate).             *)

ValidateReturned == val_pc = "returned"

TeamsOfTrade(t) == {t.team_a, t.team_b}

\* Some team is in more than one trade of the selection.
TeamInTwoTrades(sel) ==
    \E i \in DOMAIN sel : \E j \in DOMAIN sel :
        i # j /\ TeamsOfTrade(sel[i]) \cap TeamsOfTrade(sel[j]) # {}

\* C19: validate_matching_constraints returns False for the empty selection
\* and for a selection in which a team is in more than one trade, and True
\* for every other selection, whether or not it has 6 trades and covers 12
\* teams.
C19_ValidateIsTeamDisjoint ==
    ValidateReturned
    => (val_ret <=> (val_trades # <<>> /\ ~TeamInTwoTrades(val_trades)))

\* Two disjoint trades, neither 6 trades nor 12 teams, pass.
C19_Witness ==
    /\ ValidateReturned
    /\ val_ret
    /\ Len(val_trades) = 2
    /\ Cardinality(UNION {TeamsOfTrade(val_trades[i]) : i \in DOMAIN val_trades}) = 4

-----------------------------------------------------------------------------
(* Properties of filter_valid_trades on its own output (SpecRefilter).     *)

Refiltered == flt_again # None

\* C20: validation is idempotent: filter_valid_trades called on the list it
\* returned, with the same rosters and index, returns the same trades in the
\* same order with the same trade_score, value_delta_pct, team_a_gain,
\* team_b_gain and is_fair.
C20_FilterIdempotent ==
    Refiltered
    => /\ flt_again.kind = "list"
       /\ Len(flt_again.trades) = Len(flt_out.trades)
       /\ \A i \in DOMAIN flt_out.trades :
             /\ CandidateOf(flt_again.trades[i]) = CandidateOf(flt_out.trades[i])
             /\ flt_again.trades[i].trade_score = flt_out.trades[i].trade_score
             /\ flt_again.trades[i].value_delta_pct = flt_out.trades[i].value_delta_pct
             /\ flt_again.trades[i].team_a_gain = flt_out.trades[i].team_a_gain
             /\ flt_again.trades[i].team_b_gain = flt_out.trades[i].team_b_gain
             /\ flt_again.trades[i].is_fair = flt_out.trades[i].is_fair

\* Two different trades of equal score came back twice.
C20_Witness ==
    /\ Refiltered
    /\ flt_again.kind = "list"
    /\ Len(flt_again.trades) = 2
    /\ flt_again.trades[1].trade_score = flt_again.trades[2].trade_score
    /\ CandidateOf(flt_again.trades[1]) # CandidateOf(flt_again.trades[2])

-----------------------------------------------------------------------------
(* Properties of the remote fetches (SpecFetch).                           *)

IsRequestError(outcome) == outcome.kind # "json"

FailedAfterRetries ==
    ft_ret.kind = "raise" /\ ft_ret.exc = FailedToFetch(ft_fn)

\* At most MAX_RETRIES requests, a further one only after a request error.
RequestsBounded ==
    /\ Len(ft_log) <= MAX_RETRIES
    /\ \A k \in 1..(Len(ft_log) - 1) : IsRequestError(ft_log[k])

\* 'Failed to fetch ... after 3 attempts' only after exactly 3 failed requests.
FailedOnlyAfterThree ==
    FailedAfterRetries
    => Len(ft_log) = MAX_RETRIES /\ \A k \in DOMAIN ft_log : IsRequestError(ft_log[k])

\* C21: a fetch makes at most MAX_RETRIES = 3 requests and a further one only
\* after a request error; a successful response on attempt k ends the loop
\* after exactly k requests and the fetch returns without raising; 'Failed
\* to fetch ... after 3 attempts' is raised only after exactly 3 failed
\* requests.
C21_FetchRetries ==
    /\ RequestsBounded
    /\ FailedOnlyAfterThree
    /\ \A k \in DOMAIN ft_log :
          ~IsRequestError(ft_log[k])
          => /\ Len(ft_log) = k
             /\ ft_pc = "done"
             /\ ft_ret.kind = "return"

-----------------------------------------------------------------------------
(* Properties of the pipeline (SpecPipeline).                              *)

\* The candidate's value_delta_pct is at most pct percent, both sides
\* being worth something.
WithinFairness(c, pct) ==
    /\ SideValueA(c) > 0
    /\ SideValueB(c) > 0
    /\ \E v \in 0..(pct * 10) : IsReportedDelta(c, v)

\* The trades relaxation step k (1: 15%, 2: 20%) matches are exactly the
\* candidates within pct percent that pass the viability and impact gates.
StepMatchesWithin(k, pct) ==
    Len(attempts) >= k
    => /\ \A t \in Range(widen_fairness_threshold(valid_trades, pct)) :
             t.value_delta_pct <= pct * 10
       /\ \A c \in Range(candidate_trades) :
             (WithinFairness(c, pct) /\ ViabilityGate(c) /\ ImpactGate(c))
             => \E t \in Range(widen_fairness_threshold(valid_trades, pct)) :
                    CandidateOf(t) = c

\* C22: relaxation step 1 re-evaluates the fairness gate at 15% and step 2
\* at 20%: the trades matched at the step are exactly those whose
\* value_delta_pct is at most 15.0 (20.0), so a candidate above 12% and
\* within the step's threshold that passes the viability and impact gates
\* is available to the matching at that step.
C22_RelaxedFairnessAdmits ==
    /\ StepMatchesWithin(1, 15)
    /\ StepMatchesWithin(2, 20)

\* The candidate reaches the impact gate of filter_valid_trades: both teams
\* have a roster and the fairness and viability gates let it through.
ReachesImpactGate(c) ==
    /\ c.team_a \in DOMAIN team_rosters
    /\ c.team_b \in DOMAIN team_rosters
    /\ \E fair \in check_fairness_constraint(c) : fair.is_fair
    /\ check_roster_viability(c, team_rosters) = "true"

RosterIds(roster) == {e.player.sleeper_id : e \in Range(roster.players)}

\* The simulated roster of the team holds none of the players it sends and
\* all of the players it receives.
SimulatedAsStated(team, sends, receives) ==
    LET simulated(roster) ==
            /\ \A p \in Range(sends) : p.sleeper_id \notin RosterIds(roster)
            /\ \A p \in Range(receives) : p.sleeper_id \in RosterIds(roster)
    IN  simulated(simulate_trade_roster(team_rosters[team], sends, receives))

\* The gain of the team is TOTAL after the simulated trade minus TOTAL before.
GainAsStated(team, sends, receives, gain) ==
    LET difference(before, after) ==
            /\ before.kind = "values"
            /\ after.kind = "values"
            /\ gain = after.TOTAL - before.TOTAL
    IN  difference(calculate_starter_values(team_rosters[team], isin_dicts),
                   calculate_starter_values(
                       simulate_trade_roster(team_rosters[team], sends, receives),
                       isin_dicts))

\* C23: for every candidate filter_valid_trades evaluates with the rosters
\* run_trade_analysis passes to it, each team's simulated roster holds none
\* of the players the team sends and all of those it receives, the team's
\* gain is TOTAL after minus TOTAL before, and the candidate passes the
\* impact gate exactly when both gains are at least 3.0.
C23_SimulatedRosterAndGain ==
    flt_pc = "returned"
    => \A c \in Range(candidate_trades) :
          ReachesImpactGate(c)
          => /\ SimulatedAsStated(c.team_a, c.team_a_sends, c.team_b_sends)
             /\ SimulatedAsStated(c.team_b, c.team_b_sends, c.team_a_sends)
             /\ GainAsStated(c.team_a, c.team_a_sends, c.team_b_sends,
                             ImpactOf(c).team_a_gain)
             /\ GainAsStated(c.team_b, c.team_b_sends, c.team_a_sends,
                             ImpactOf(c).team_b_gain)
             /\ check_meaningful_impact(c, team_rosters, isin_dicts) = "true"
                <=> /\ ImpactOf(c).team_a_gain >= MIN_STARTER_GAIN
                    /\ ImpactOf(c).team_b_gain >= MIN_STARTER_GAIN

-----------------------------------------------------------------------------
(* Properties of compute_positional_deltas (SpecDeltas).                   *)

DeltasReturned == pd_pc = "returned" /\ pd_starters # <<>>

TeamValue(team, position) == pd_starters[team][position]

Below(position, x) ==
    Cardinality({team \in DOMAIN pd_starters : TeamValue(team, position) < x})

Above(position, x) ==
    Cardinality({team \in DOMAIN pd_starters : TeamValue(team, position) > x})

\* The two middle values of the teams' values (the same value twice for an
\* odd number of teams).
LowerMiddle(position) ==
    CHOOSE x \in {TeamValue(team, position) : team \in DOMAIN pd_starters} :
        /\ Below(position, x) <= (Len(pd_starters) - 1) \div 2
        /\ Above(position, x) <= Len(pd_starters) \div 2

UpperMiddle(position) ==
    CHOOSE x \in {TeamValue(team, position) : team \in DOMAIN pd_starters} :
        /\ Below(position, x) <= Len(pd_starters) \div 2
        /\ Above(position, x) <= (Len(pd_starters) - 1) \div 2

\* The median as stated, in hundredths.
StatedMedian(position) == 5 * (LowerMiddle(position) + UpperMiddle(position))

\* C24 as stated: the league median of a position is the middle value of the
\* teams' values, or the average of the two middle values, and a team's
\* delta is its value minus that median, rounded to one decimal.
C24_ExactMedianAndDeltas ==
    DeltasReturned
    => \A position \in DeltaPositions :
          /\ 10 * pd_ret.league_medians[position] = StatedMedian(position)
          /\ \A team \in DOMAIN pd_starters :
                Abs(10 * pd_ret.team_deltas[team][position]
                    - (10 * TeamValue(team, position) - StatedMedian(position))) <= 5

\* C24: the league median of a position is the middle value of the teams'
\* values, or the average of the two middle values, rounded to one decimal,
\* and a team's delta is its value minus that rounded median.
C24_RoundedMedianAndDeltas ==
    DeltasReturned
    => \A position \in DeltaPositions :
          /\ Abs(10 * pd_ret.league_medians[position] - StatedMedian(position)) <= 5
          /\ \A team \in DOMAIN pd_starters :
                pd_ret.team_deltas[team][position]
                   = TeamValue(team, position) - pd_ret.league_medians[position]

\* Four teams whose two middle QB values are 35.1 and 35.2: the median is
\* not 35.15.
C24_Witness ==
    /\ DeltasReturned
    /\ Len(pd_starters) = 4
    /\ StatedMedian("QB") = 3515
    /\ pd_ret.league_medians["QB"] \in {351, 352}
    /\ \E team \in DOMAIN pd_starters : pd_ret.team_deltas[team]["QB"] = 0

-----------------------------------------------------------------------------
(* Shape and origin of the candidates (SpecGenerate).                      *)

\* The player is on the enriched roster of the team and at most two players
\* of that roster at the same position have a higher value.
AmongTopThree(team, p) ==
    /\ team \in DOMAIN gen_enriched
    /\ p \in Range(gen_enriched[team].players)
    /\ Cardinality({q \in Range(gen_enriched[team].players) :
                       q.position = p.position /\ q.value > p.value}) <= 2

\* The candidate has one player per side, or two different players per side.
ShapeOf(t) ==
    \/ /\ t.type = "1-for-1"
       /\ Len(t.team_a_sends) = 1 /\ Len(t.team_b_sends) = 1
    \/ /\ t.type = "2-for-2"
       /\ Len(t.team_a_sends) = 2 /\ Len(t.team_b_sends) = 2
       /\ t.team_a_sends[1] # t.team_a_sends[2]
       /\ t.team_b_sends[1] # t.team_b_sends[2]

\* C25: every candidate is a 1-for-1 with one player per side or a 2-for-2
\* with two distinct players per side, no side has more than two players, and
\* every player sent is among the three highest-valued players of the sending
\* team at the player's position.
C25_CandidateShapes ==
    GenerateReturned
    => \A i \in DOMAIN gen_out.trades :
          LET t == gen_out.trades[i]
          IN  /\ ShapeOf(t)
              /\ Len(t.team_a_sends) <= 2 /\ Len(t.team_b_sends) <= 2
              /\ \A p \in Range(t.team_a_sends) : AmongTopThree(t.team_a, p)
              /\ \A p \in Range(t.team_b_sends) : AmongTopThree(t.team_b, p)

\* Team 2 holds five WRs; a 1-for-1 sends its third-best WR, a 2-for-2 sends
\* two of its WRs, and both kinds of candidate were emitted.
C25_Witness ==
    /\ GenerateReturned
    /\ 2 \in DOMAIN gen_enriched
    /\ Cardinality({q \in Range(gen_enriched[2].players) : q.position = "WR"}) = 5
    /\ \E i \in DOMAIN gen_out.trades :
          LET t == gen_out.trades[i]
          IN  /\ t.type = "1-for-1" /\ t.team_b = 2
              /\ t.team_b_sends[1].position = "WR"
              /\ Cardinality({q \in Range(gen_enriched[2].players) :
                    q.position = "WR" /\ q.value > t.team_b_sends[1].value}) = 2
    /\ \E i \in DOMAIN gen_out.trades :
          LET t == gen_out.trades[i]
          IN  /\ t.type = "2-for-2" /\ t.team_b = 2
              /\ t.team_b_sends[1].position = "WR"
              /\ t.team_b_sends[2].position = "WR"

-----------------------------------------------------------------------------
(* The relaxation ladder on the output of filter_valid_trades              *)
(* (specification Spec).                                                   *)

\* Every validated trade meets the default thresholds of filter_valid_trades:
\* value_delta_pct <= 12.0 and both gains >= 3.0.
WithinDefaults ==
    \A i \in DOMAIN valid_trades :
        /\ valid_trades[i].value_delta_pct <= FAIRNESS_THRESHOLD * 10
        /\ valid_trades[i].team_a_gain >= MIN_STARTER_GAIN
        /\ valid_trades[i].team_b_gain >= MIN_STARTER_GAIN

\* What select_optimal_trades returns when the selection is left to strategy 5.
PartialReturns ==
    {SelectReturn(r) : r \in find_best_partial_matching(valid_trades)}

\* C26: for validated trades that all have value_delta_pct <= 12.0 and both
\* gains >= 3.0, strategies 1 to 4 each retry with the whole list and so
\* rebuild the graph of the initial attempt; once the initial perfect matching
\* has failed each of them fails, all five strategies are tried, and the list
\* returned is the result of the partial matching of strategy 5, or empty.
C26_RelaxationRepeatsInitial ==
    (WithinDefaults /\ valid_trades # <<>>)
    => /\ \A k \in 1..4 :
             /\ StrategyTrades(k) = valid_trades
             /\ build_trade_graph(StrategyTrades(k)) = InputGraph
       /\ pc # "start" => G = InputGraph
       /\ attempts # <<>> =>
             \A k \in 1..4 : StrategyOutcomes(k) = {None}
       /\ (attempts # <<>> /\ pc \in {"validate", "done"}) =>
             /\ attempts = Ladder
             /\ \E r \in find_best_partial_matching(valid_trades) :
                   selected_trades = IF Truthy(r) THEN r ELSE None
       /\ (attempts # <<>> /\ pc = "done") => result \in PartialReturns

\* Eleven teams, every trade within the default thresholds, one of them at
\* 12.0% with gains of 3.0: the perfect matching failed, the five strategies
\* were tried and the five trades of the partial matching were returned.
C26_Witness ==
    /\ pc = "done"
    /\ WithinDefaults
    /\ Cardinality(TeamsOfList(valid_trades)) = 11
    /\ \E i \in DOMAIN valid_trades :
          /\ valid_trades[i].value_delta_pct = 120
          /\ valid_trades[i].team_a_gain = 30
    /\ attempts = Ladder
    /\ G = InputGraph
    /\ Len(result) = 5
    /\ result \in PartialReturns

-----------------------------------------------------------------------------
(* The graph built from the output of filter_valid_trades (SpecPipeline).  *)

\* The trade_score values of the validated trades of a team pair.
PairScores(pair) ==
    {valid_trades[i].trade_score :
        i \in {j \in DOMAIN valid_trades : PairOf(valid_trades[j]) = pair}}

\* s is the lowest trade_score among the validated trades of the pair.
IsLowestOf(s, pair) ==
    /\ s \in PairScores(pair)
    /\ \A x \in PairScores(pair) : s <= x

\* C27: with the output of filter_valid_trades, sorted by trade_score
\* descending, as the list of validated trades, the edge the graph keeps for a
\* team pair carries the lowest trade_score among the pair's validated trades,
\* and every trade select_optimal_trades returns is a validated trade of the
\* lowest score of its pair.
C27_LowestScoreKept ==
    (pc # "idle" /\ valid_trades # <<>>)
    => /\ valid_trades = flt_out.trades
       /\ \A i \in DOMAIN valid_trades : \A j \in DOMAIN valid_trades :
             i < j => valid_trades[i].trade_score >= valid_trades[j].trade_score
       /\ pc # "start" =>
             \A e \in G.edges :
                 /\ IsLowestOf(e.weight, e.pair)
                 /\ e.trade_data \in Range(valid_trades)
                 /\ e.trade_data.trade_score = e.weight
       /\ pc = "done" =>
             \A i \in DOMAIN result :
                 /\ result[i] \in Range(valid_trades)
                 /\ IsLowestOf(result[i].trade_score, PairOf(result[i]))

\* filter_valid_trades validated two trades of teams 1 and 2 with different
\* scores, and the one returned is the second of the list, the lower-scoring.
C27_Witness ==
    /\ pc = "done"
    /\ Len(valid_trades) = 2
    /\ valid_trades = flt_out.trades
    /\ PairOf(valid_trades[1]) = PairOf(valid_trades[2])
    /\ valid_trades[1].trade_score > valid_trades[2].trade_score
    /\ valid_trades[2].trade_score > 0
    /\ result = <<valid_trades[2]>>

-----------------------------------------------------------------------------
(* When the selection is empty (specification Spec).                       *)

\* Some validated trade has a trade_score above 0.
HasPositiveTrade ==
    \E i \in DOMAIN valid_trades : valid_trades[i].trade_score > 0

\* Some edge of the graph of the validated trades has a weight above 0: for
\* some team pair the last trade of the list scores above 0.
HasPositiveEdge == \E e \in InputGraph.edges : e.weight > 0

\* The initial attempt and the five strategies have all failed.
LadderExhausted ==
    /\ attempts = Ladder
    /\ find_perfect_matching(InputGraph, TOTAL_TEAMS) = {None}
    /\ \A k \in 1..4 : StrategyOutcomes(k) = {None}
    /\ selected_trades = None
    /\ None \in StrategyOutcomes(5)

-----------------------------------------------------------------------------
(* FLEX and missing rosters in generate_candidate_trades (SpecGenerate).   *)

\* The candidates between the two teams, in either orientation.
TradesBetween(a, b) ==
    {i \in DOMAIN gen_out.trades :
        {gen_out.trades[i].team_a, gen_out.trades[i].team_b} = {a, b}}

\* C29: no candidate sends a player for a FLEX need or surplus: every player
\* sent is a QB, RB, WR or TE and FLEX is not among the positions a candidate
\* addresses; a team pair whose complementary positions are only FLEX on one
\* side has no candidate, whatever the other side; and without enriched data
\* no candidate is emitted at all.
C29_FlexNeverTraded ==
    GenerateReturned
    => /\ \A i \in DOMAIN gen_out.trades :
             LET t == gen_out.trades[i]
             IN  /\ \A p \in Range(t.team_a_sends) \cup Range(t.team_b_sends) :
                        p.position \in {"QB", "RB", "WR", "TE"}
                 /\ "FLEX" \notin Range(t.positions_addressed.team_a)
                 /\ "FLEX" \notin Range(t.positions_addressed.team_b)
       /\ \A a \in DOMAIN gen_ns : \A b \in DOMAIN gen_ns \ {a} :
             Complements(a, b) = {"FLEX"} => TradesBetween(a, b) = {}
       /\ gen_enriched = <<>> => gen_out.trades = <<>>

\* Teams 1 and 2 hold RBs and WRs; team 1 has a FLEX surplus that team 2
\* needs and team 2 a QB surplus that team 1 needs and holds; no candidate is
\* between them.
C29_Witness ==
    /\ GenerateReturned
    /\ Complements(1, 2) = {"FLEX"}
    /\ Complements(2, 1) = {"QB"}
    /\ Holds(1, "RB") /\ Holds(1, "WR")
    /\ Holds(2, "QB")
    /\ TradesBetween(1, 2) = {}

-----------------------------------------------------------------------------
(* Orientation and origin of the candidates (SpecGenerate).                *)

\* The player is on the enriched roster of team from, at a position that is
\* in the surplus of from and in the needs of to.
SentFor(p, from, to) ==
    /\ from \in DOMAIN gen_enriched
    /\ p \in Range(gen_enriched[from].players)
    /\ p.position \in Complements(from, to)

\* C30: in every candidate team_a comes before team_b in the order of the
\* teams of team_needs_surplus, every player team A sends is on A's roster at
\* a position in A's surplus and B's needs, and every player team B sends is
\* on B's roster at a position in B's surplus and A's needs.
C30_OrientationAndOrigin ==
    GenerateReturned
    => \A i \in DOMAIN gen_out.trades :
          LET t == gen_out.trades[i]
          IN  /\ t.team_a # t.team_b
              /\ t.team_a < t.team_b
              /\ \A p \in Range(t.team_a_sends) : SentFor(p, t.team_a, t.team_b)
              /\ \A p \in Range(t.team_b_sends) : SentFor(p, t.team_b, t.team_a)

\* Teams 2 and 3 trade, team 2 as team_a; teams 1 and 2 trade in 1-for-1 and
\* in 2-for-2, team 1 as team_a although its surplus has positions team 2
\* does not need; no candidate has the later team as team_a.
C30_Witness ==
    /\ GenerateReturned
    /\ \E i \in DOMAIN gen_out.trades :
          gen_out.trades[i].team_a = 2 /\ gen_out.trades[i].team_b = 3
    /\ \E i \in DOMAIN gen_out.trades :
          /\ gen_out.trades[i].type = "2-for-2"
          /\ gen_out.trades[i].team_a = 1 /\ gen_out.trades[i].team_b = 2
    /\ Range(gen_ns[1].surplus) \ Range(gen_ns[2].needs) # {}
    /\ \A i \in DOMAIN gen_out.trades :
          gen_out.trades[i].team_a < gen_out.trades[i].team_b

====
